---------------------------- MODULE Spec2Model ----------------------------
(***************************************************************************)
(* A model of two parts of fityk:                                          *)
(*   - the lexer (src/fityk/lexer.cpp): a cursor over an immutable C       *)
(*     string with a one-token lookahead buffer;                           *)
(*   - the definition manager dialog (src/wxgui/defmgr.cpp): a working     *)
(*     copy of the function templates and the define/undefine commands     *)
(*     that reconcile the registry with it.                                *)
(*                                                                         *)
(* Characters are one-character strings, a text is a sequence of them.     *)
(* A C string is modelled by its characters; the terminating NUL is read   *)
(* at the offset Len(text).  Pointers into the input are 0-based offsets.  *)
(* A message (std::string built with +) is the sequence of the pieces it   *)
(* is concatenated from: literal pieces are whole strings, text copied     *)
(* from the input is copied character by character.                        *)
(***************************************************************************)
EXTENDS Integers, Sequences, FiniteSets, TLC

VARIABLES
    input,      \* Lexer::input_  : the text being tokenized (never written)
    cur_,       \* Lexer::cur_    : offset of the cursor
    tok_,       \* Lexer::tok_    : the token buffer
    peeked_,    \* Lexer::peeked_ : tok_ holds a lookahead not yet consumed
    op,         \* the name of the last lexer operation called
    ret,        \* the token it returned (NoToken when it threw or returns void)
    err,        \* the message of the exception it threw (<<>>: it returned)
    held        \* the token the caller keeps to go back to (NoToken: none)

lexvars == <<input, cur_, tok_, peeked_, op, ret, err, held>>

VARIABLES
    tpvec,      \* ftk->get_tpm()->tpvec() : the committed templates, in order
    functions,  \* ftk->mgr.functions()    : the functions built from templates
    modified_,  \* DefinitionMgrDlg::modified_ : the working copy
    selected_,  \* DefinitionMgrDlg::selected_ : index of the entry shown, -1: none
    lb,         \* the list box: its labels and its selection (-1: wxNOT_FOUND)
    def_tc,     \* the definition field: its text and whether it is editable
    desc_tc,    \* the description field: its text
    def_label_st, \* the label above the definition field
    link,       \* the documentation link: enabled or not, and its URL
    ok_btn,     \* the OK button is enabled
    remove_btn, \* the Remove button is enabled
    phase,      \* where the edit session is: see the actions of the dialog
    ss          \* the commands get_commands() returned, when it has run

dlgvars == <<tpvec, functions, modified_, selected_, lb, def_tc, desc_tc,
             def_label_st, link, ok_btn, remove_btn, phase, ss>>

-----------------------------------------------------------------------------
(* Bounds of the model *)

\* longest text drawn from one of the alphabets
MaxLen == 2

\* most entries the working copy of the dialog is let grow to
MaxWorking == 2

(* Program constants *)

\* the left context of a syntax error is the 10 characters before the cursor
kContext == 10

\* Lexer::kAll and Lexer::kNew: the dataset sentinels of "@*" and "@+"
kAll == -1
kNew == -2

-----------------------------------------------------------------------------
(* Characters: <ctype.h> in the "C" locale *)

NUL == ""

\* The opening quote character of the messages (ASCII 96), named by its code
\* point: the messages are sequences of pieces, and this piece is that one
\* character.
GraveAccent == "U+0060"

\* The vertical tab (ASCII 11) has no escape: the string holds the character
\* itself.
VT == ""

\* the characters isspace() is true of
SpaceChars == {" ", "\t", "\n", VT, "\f", "\r"}
DigitChars == {"0", "1", "2", "3", "4", "5", "6", "7", "8", "9"}
UpperChars == {"A", "B", "C", "D", "E", "F", "G", "H", "I", "J", "K", "L", "M",
               "N", "O", "P", "Q", "R", "S", "T", "U", "V", "W", "X", "Y", "Z"}
LowerChars == {"a", "b", "c", "d", "e", "f", "g", "h", "i", "j", "k", "l", "m",
               "n", "o", "p", "q", "r", "s", "t", "u", "v", "w", "x", "y", "z"}

isspace(c) == c \in SpaceChars
isdigit(c) == c \in DigitChars
isupper(c) == c \in UpperChars
isalpha(c) == c \in UpperChars \cup LowerChars
isalnum(c) == isalpha(c) \/ isdigit(c)

\* *(text + p): the character at offset p, NUL at the end of the text
CharAt(text, p) == IF p >= 0 /\ p < Len(text) THEN text[p + 1] ELSE NUL

\* std::string(text + from, text + to)
Slice(text, from, to) == SubSeq(text, from + 1, to)

DigitVal(c) == CHOOSE d \in 0..9 : <<"0", "1", "2", "3", "4", "5", "6", "7", "8", "9">>[d + 1] = c

DigitChar(d) == <<"0", "1", "2", "3", "4", "5", "6", "7", "8", "9">>[d + 1]

\* S(n): the decimal text of an int
RECURSIVE S(_)
S(n) ==
    IF n < 0 THEN <<"-">> \o S(-n)
    ELSE IF n < 10 THEN <<DigitChar(n)>>
    ELSE S(n \div 10) \o <<DigitChar(n % 10)>>

-----------------------------------------------------------------------------
(* Tokens *)

TokenTypes ==
    {"kTokenLname", "kTokenCname", "kTokenUletter", "kTokenString",
     "kTokenVarname", "kTokenFuncname", "kTokenNumber", "kTokenDataset",
     "kTokenWord", "kTokenExpr", "kTokenEVar", "kTokenRest",
     "kTokenLE", "kTokenGE", "kTokenNE", "kTokenEQ", "kTokenAppend",
     "kTokenDots", "kTokenPlusMinus", "kTokenAddAssign", "kTokenSubAssign",
     "kTokenOpen", "kTokenClose", "kTokenLSquare", "kTokenRSquare",
     "kTokenLCurly", "kTokenRCurly", "kTokenPlus", "kTokenMinus",
     "kTokenMult", "kTokenDiv", "kTokenPower", "kTokenLT", "kTokenGT",
     "kTokenAssign", "kTokenComma", "kTokenSemicolon", "kTokenDot",
     "kTokenColon", "kTokenTilde", "kTokenQMark", "kTokenBang", "kTokenNop"}

\* Token::value is a union {int i; double d}.  tag tells which member was
\* written ("none": neither).  An int is m.  A double is zero, infinite or
\* the finite sig * 2^e, sig being the bits of an odd number, the most
\* significant first.
NoValue == [tag |-> "none", m |-> 0, cls |-> "none", sig |-> <<>>, e |-> 0]
IntValue(i) == [tag |-> "i", m |-> i, cls |-> "none", sig |-> <<>>, e |-> 0]

\* the token buffer of a fresh Lexer: nothing has been read
NoToken == [type |-> "none", str |-> 0, length |-> 0, value |-> NoValue]

\* Token::as_string(): std::string(str, length)
as_string(text, t) == Slice(text, t.str, t.str + t.length)

\* same kind, start and length (the stale value of a token that carries
\* none is not compared)
SameSpan(t, u) == t.type = u.type /\ t.str = u.str /\ t.length = u.length

tokentype2str(tt) ==
    CASE tt = "kTokenLname" -> "lower_case_name"
      [] tt = "kTokenCname" -> "CamelCaseName"
      [] tt = "kTokenUletter" -> "Upper-case-letter"
      [] tt = "kTokenString" -> "'quoted-string'"
      [] tt = "kTokenVarname" -> "$variable_name"
      [] tt = "kTokenFuncname" -> "%func_name"
      [] tt = "kTokenNumber" -> "number"
      [] tt = "kTokenDataset" -> "@dataset"
      [] tt = "kTokenWord" -> "word"
      [] tt = "kTokenExpr" -> "expr"
      [] tt = "kTokenEVar" -> "var-expr"
      [] tt = "kTokenRest" -> "rest-of-line"
      [] tt = "kTokenLE" -> "<="
      [] tt = "kTokenGE" -> ">="
      [] tt = "kTokenNE" -> "!="
      [] tt = "kTokenEQ" -> "=="
      [] tt = "kTokenAppend" -> ">>"
      [] tt = "kTokenDots" -> ".."
      [] tt = "kTokenPlusMinus" -> "+-"
      [] tt = "kTokenAddAssign" -> "+="
      [] tt = "kTokenSubAssign" -> "-="
      [] tt = "kTokenOpen" -> "("
      [] tt = "kTokenClose" -> ")"
      [] tt = "kTokenLSquare" -> "["
      [] tt = "kTokenRSquare" -> "]"
      [] tt = "kTokenLCurly" -> "{"
      [] tt = "kTokenRCurly" -> "}"
      [] tt = "kTokenPlus" -> "+"
      [] tt = "kTokenMinus" -> "-"
      [] tt = "kTokenMult" -> "*"
      [] tt = "kTokenDiv" -> "/"
      [] tt = "kTokenPower" -> "^"
      [] tt = "kTokenLT" -> "<"
      [] tt = "kTokenGT" -> ">"
      [] tt = "kTokenAssign" -> "="
      [] tt = "kTokenComma" -> ","
      [] tt = "kTokenSemicolon" -> ";"
      [] tt = "kTokenDot" -> "."
      [] tt = "kTokenColon" -> ":"
      [] tt = "kTokenTilde" -> "~"
      [] tt = "kTokenQMark" -> "?"
      [] tt = "kTokenBang" -> "!"
      [] tt = "kTokenNop" -> "Nop"

-----------------------------------------------------------------------------
(* Scanning helpers *)

\* while (isspace(*p)) ++p;
RECURSIVE SkipSpace(_, _)
SkipSpace(text, p) ==
    IF isspace(CharAt(text, p)) THEN SkipSpace(text, p + 1) ELSE p

\* while (isdigit(*p)) ++p;
SkipDigits(text, p) ==
    IF \A j \in p..(Len(text) - 1) : isdigit(CharAt(text, j))
    THEN IF p > Len(text) THEN p ELSE Len(text)
    ELSE CHOOSE j \in p..(Len(text) - 1) :
             /\ ~isdigit(CharAt(text, j))
             /\ \A k \in p..(j - 1) : isdigit(CharAt(text, k))

\* a loop that reads the '_' as well
RECURSIVE SkipAlnumUnderscore(_, _)
SkipAlnumUnderscore(text, p) ==
    IF isalnum(CharAt(text, p)) \/ CharAt(text, p) = "_"
    THEN SkipAlnumUnderscore(text, p + 1) ELSE p

\* while (isalnum(*p)) ++p;
RECURSIVE SkipAlnum(_, _)
SkipAlnum(text, p) ==
    IF isalnum(CharAt(text, p)) THEN SkipAlnum(text, p + 1) ELSE p

\* a loop that reads the '*' in either mode
RECURSIVE SkipNameGlob(_, _, _)
SkipNameGlob(text, p, allow_glob) ==
    LET c == CharAt(text, p)
    IN  IF isalnum(c) \/ c = "_" \/ c = "*"
        THEN SkipNameGlob(text, p + 1, allow_glob) ELSE p

\* while (isalnum(*p) || *p == '_' || (allow_glob && *p == '*')) ++p;
RECURSIVE SkipName(_, _, _)
SkipName(text, p, allow_glob) ==
    LET c == CharAt(text, p)
    IN  IF isalnum(c) \/ c = "_" \/ (allow_glob /\ c = "*")
        THEN SkipName(text, p + 1, allow_glob) ELSE p

\* strchr(text + p, ch): the offset of the first ch at or after p, -1 for NULL
RECURSIVE strchr(_, _, _)
strchr(text, p, ch) ==
    IF p >= Len(text) THEN -1
    ELSE IF text[p + 1] = ch THEN p ELSE strchr(text, p + 1, ch)

\* isxdigit(c), and the value of a hexadecimal digit
isxdigit(c) == isdigit(c) \/ c \in {"a", "b", "c", "d", "e", "f", "A", "B", "C", "D", "E", "F"}

HexVal(c) ==
    IF isdigit(c) THEN DigitVal(c)
    ELSE IF c \in {"a", "A"} THEN 10
    ELSE IF c \in {"b", "B"} THEN 11
    ELSE IF c \in {"c", "C"} THEN 12
    ELSE IF c \in {"d", "D"} THEN 13
    ELSE IF c \in {"e", "E"} THEN 14
    ELSE 15

\* while (isxdigit(*p)) ++p;
SkipXDigits(text, p) ==
    IF \A j \in p..(Len(text) - 1) : isxdigit(CharAt(text, j))
    THEN IF p > Len(text) THEN p ELSE Len(text)
    ELSE CHOOSE j \in p..(Len(text) - 1) :
             /\ ~isxdigit(CharAt(text, j))
             /\ \A k \in p..(j - 1) : isxdigit(CharAt(text, k))

\* IEEE 754 binary64, the double of the build: <float.h>
DBL_MANT_DIG == 53
DBL_MAX_EXP == 1024
\* the exponent of the smallest subnormal, 2^-1074, negated
DBL_TRUE_MIN_EXP == 1074
\* every decimal of 310 or more integer digits is above DBL_MAX, and every
\* decimal below 10^-324 is under half the smallest subnormal
DBL_MAX_10_EXP == 308
DBL_TRUE_MIN_10_EXP == 324

DblZero == [tag |-> "d", m |-> 0, cls |-> "zero", sig |-> <<>>, e |-> 0]
DblInf == [tag |-> "d", m |-> 0, cls |-> "inf", sig |-> <<>>, e |-> 0]
\* the double sig * 2^e, sig being the bits of an odd number, the most
\* significant first; HUGE_VAL when it is out of range
Dbl(sig, e) ==
    IF Len(sig) + e > DBL_MAX_EXP THEN DblInf
    ELSE [tag |-> "d", m |-> 0, cls |-> "finite", sig |-> sig, e |-> e]

\* Natural numbers of any size, for the exact value of the digits: sequences
\* of 27-bit limbs, the least significant first, without a leading zero limb
\* (0 is <<>>).  The operations go through the limbs by halves.
\* a * k + c on the limbs lo..hi (k and c at most 10): the limbs s of the
\* result and the carry c out of them
RECURSIVE MulAddRange(_, _, _, _, _)
RECURSIVE MulAddNext(_, _, _, _, _)
MulAddRange(a, k, c, lo, hi) ==
    IF lo = hi
    THEN [s |-> <<(a[lo] * k + c) % 134217728>>, c |-> (a[lo] * k + c) \div 134217728]
    ELSE MulAddNext(a, k, MulAddRange(a, k, c, lo, (lo + hi) \div 2), (lo + hi) \div 2 + 1, hi)

MulAddJoin(l, r) == [s |-> l.s \o r.s, c |-> r.c]

MulAddNext(a, k, l, lo, hi) ==
    IF l.c < 0 THEN l ELSE MulAddJoin(l, MulAddRange(a, k, l.c, lo, hi))

MulAddCarry(r) == IF r.c = 0 THEN r.s ELSE Append(r.s, r.c)

\* a * k + c (k and c at most 10)
MulAdd(a, k, c) ==
    IF a = <<>> THEN (IF c = 0 THEN <<>> ELSE <<c>>)
    ELSE MulAddCarry(MulAddRange(a, k, c, 1, Len(a)))

\* a followed by the digit values ds[lo..hi]
RECURSIVE PushDigits(_, _, _, _)
PushDigits(a, ds, lo, hi) ==
    IF Len(a) < 0 \/ lo > hi THEN a
    ELSE IF lo = hi THEN MulAdd(a, 10, ds[lo])
    ELSE PushDigits(PushDigits(a, ds, lo, (lo + hi) \div 2), ds, (lo + hi) \div 2 + 1, hi)

\* the number the first n of the digit values ds denote
BigOfDigits(ds, n) == PushDigits(<<>>, ds, 1, n)

\* a * k^n, by halves
RECURSIVE MulPow(_, _, _)
MulPow(a, k, n) ==
    IF n <= 0 \/ a = <<>> THEN a
    ELSE IF n = 1 THEN MulAdd(a, k, 0)
    ELSE MulPow(MulPow(a, k, n \div 2), k, n - n \div 2)

RECURSIVE BitsOf(_)
BitsOf(x) == IF x = 0 THEN 0 ELSE 1 + BitsOf(x \div 2)

\* the number of bits of a
BitLen(a) == IF a = <<>> THEN 0 ELSE 27 * (Len(a) - 1) + BitsOf(a[Len(a)])

\* a * 2^s, a being positive
ShiftLeft(a, s) == [i \in 1..(s \div 27) |-> 0] \o MulPow(a, 2, s % 27)

\* a >= b: by the lengths, then by the highest limb that differs
BigGe(a, b) ==
    IF Len(a) # Len(b) THEN Len(a) > Len(b)
    ELSE IF \A i \in 1..Len(a) : a[i] = b[i] THEN TRUE
    ELSE a[Len(a) + 1 - (CHOOSE j \in 1..Len(a) :
                             /\ a[Len(a) + 1 - j] # b[Len(a) + 1 - j]
                             /\ \A k \in 1..(j - 1) : a[Len(a) + 1 - k] = b[Len(a) + 1 - k])]
         > b[Len(a) + 1 - (CHOOSE j \in 1..Len(a) :
                             /\ a[Len(a) + 1 - j] # b[Len(a) + 1 - j]
                             /\ \A k \in 1..(j - 1) : a[Len(a) + 1 - k] = b[Len(a) + 1 - k])]

\* a without its leading zero limbs
BigTrim(a) ==
    IF \A i \in 1..Len(a) : a[i] = 0 THEN <<>>
    ELSE SubSeq(a, 1, Len(a) + 1 - (CHOOSE j \in 1..Len(a) :
                                        /\ a[Len(a) + 1 - j] # 0
                                        /\ \A k \in 1..(j - 1) : a[Len(a) + 1 - k] = 0))

\* a - b - c on the limbs lo..hi: the limbs s of the result and the borrow c
\* out of them
SubLimb(x) == IF x < 0 THEN [s |-> <<x + 134217728>>, c |-> 1] ELSE [s |-> <<x>>, c |-> 0]

RECURSIVE SubRange(_, _, _, _, _)
RECURSIVE SubNext(_, _, _, _, _)
SubRange(a, b, c, lo, hi) ==
    IF lo = hi THEN SubLimb(a[lo] - (IF lo <= Len(b) THEN b[lo] ELSE 0) - c)
    ELSE SubNext(a, b, SubRange(a, b, c, lo, (lo + hi) \div 2), (lo + hi) \div 2 + 1, hi)

SubNext(a, b, l, lo, hi) ==
    IF l.c < 0 THEN l ELSE MulAddJoin(l, SubRange(a, b, l.c, lo, hi))

\* a - b where a >= b and a > 0
BigSub(a, b) == BigTrim(SubRange(a, b, 0, 1, Len(a)).s)

\* the bits of a, the most significant first
BigBits(a) ==
    [j \in 1..BitLen(a) |->
        (a[(BitLen(a) - j) \div 27 + 1] \div (2 ^ ((BitLen(a) - j) % 27))) % 2]

\* Long division of r by d (r < d), a bit of the quotient at a time: q is
\* the remainder and the bits found so far, r2 twice the remainder.  It
\* stops when no remainder is left.
QuotBit(q, d, r2) ==
    IF BigGe(r2, d) THEN [r |-> BigSub(r2, d), bits |-> Append(q.bits, 1)]
    ELSE [r |-> r2, bits |-> Append(q.bits, 0)]

\* n more bits of the quotient, by halves
RECURSIVE QuotBits(_, _, _)
QuotBits(q, d, n) ==
    IF n <= 0 \/ q.r = <<>> THEN q
    ELSE IF n = 1 THEN QuotBit(q, d, MulAdd(q.r, 2, 0))
    ELSE QuotBits(QuotBits(q, d, n \div 2), d, n - n \div 2)

\* the last index up to n where the bits hold v, 0 when there is none
LastIdx(bits, n, v) ==
    IF \A j \in 1..n : bits[j] # v THEN 0
    ELSE CHOOSE j \in 1..n : bits[j] = v /\ \A k \in (j + 1)..n : bits[k] # v

\* the first k bits of b, plus one when up, times 2^x
RoundTo(b, k, x, up) ==
    IF up
    THEN IF LastIdx(b, k, 0) = 0 THEN Dbl(<<1>>, x + k)
         ELSE Dbl(Append(SubSeq(b, 1, LastIdx(b, k, 0) - 1), 1), x + k - LastIdx(b, k, 0))
    ELSE IF LastIdx(b, k, 1) = 0 THEN DblZero
         ELSE Dbl(SubSeq(b, 1, LastIdx(b, k, 1)), x + k - LastIdx(b, k, 1))

\* The double strtod gives for b * 2^x (+ a fraction of 2^x when sticky), b
\* being bits that start with a 1.  kept is the number of bits the double
\* has at that magnitude (DBL_MANT_DIG, fewer among the subnormals).  The
\* number is rounded to nearest, ties to even, but for one bit: strtod
\* first cuts the number to DBL_MANT_DIG bits, a rounding bit and a flag
\* for what follows, and when the number is subnormal it cuts it again, to
\* kept bits, and forgets the first rounding bit, the bit DBL_MANT_DIG + 1
\* of b (round_and_return of the C library of the build, glibc 2.36).
Round(b, x, sticky, kept) ==
    IF Len(b) + x > DBL_MAX_EXP THEN DblInf
    ELSE IF kept < 0 THEN DblZero
    ELSE IF Len(b) <= kept THEN RoundTo(b, Len(b), x, FALSE)
    ELSE RoundTo(b, kept, x + Len(b) - kept,
                 /\ b[kept + 1] = 1
                 /\ \/ sticky
                    \/ \E j \in (kept + 2)..Len(b) : j # DBL_MANT_DIG + 1 /\ b[j] = 1
                    \/ kept > 0 /\ b[kept] = 1)

ToDouble(bits, x, sticky) ==
    IF \A j \in 1..Len(bits) : bits[j] = 0 THEN DblZero
    ELSE LET f == CHOOSE j \in 1..Len(bits) : bits[j] = 1 /\ \A k \in 1..(j - 1) : bits[k] = 0
             n == Len(bits) - f + 1
         IN  Round(SubSeq(bits, f, Len(bits)), x, sticky,
                   IF n + x + DBL_TRUE_MIN_EXP < DBL_MANT_DIG
                   THEN n + x + DBL_TRUE_MIN_EXP ELSE DBL_MANT_DIG)

\* n / d (+ a little when more), both positive and n / d < 2^t0: the
\* division is carried to 3 bits more than a double holds (the quotient has
\* at most one leading 0)
Quot(t0, q, more) == ToDouble(q.bits, t0 - Len(q.bits), more \/ q.r # <<>>)
BigDiv(n, d, t0, more) ==
    IF n = <<>> \/ d = <<>> THEN DblZero
    ELSE Quot(t0,
              IF t0 >= 0
              THEN QuotBits([r |-> n, bits |-> <<>>], ShiftLeft(d, t0), DBL_MANT_DIG + 3)
              ELSE QuotBits([r |-> ShiftLeft(n, -t0), bits |-> <<>>], d, DBL_MANT_DIG + 3),
              more)

\* ds without its leading zeros
StripZeros(ds) ==
    IF \A j \in 1..Len(ds) : ds[j] = 0 THEN <<>>
    ELSE SubSeq(ds, CHOOSE j \in 1..Len(ds) : ds[j] # 0 /\ \A k \in 1..(j - 1) : ds[k] = 0,
                Len(ds))

\* A double, and the middle of two neighbouring doubles, is an odd multiple
\* below 2^54 of a power of two not under 2^-1075: written in decimal it has
\* at most 54 + 1075 significant digits.  Digits of a number past that many
\* cannot carry it across such a value; they only tell whether it is above
\* the number its first digits denote.
MaxSigDigits == DBL_MANT_DIG + 1 + DBL_TRUE_MIN_EXP + 1

\* strtod reads no digit of a decimal number under 10^-NeedFracDigits (a
\* quarter of the unit of the smallest doubles lies there): of the digits
\* under it, it notes only whether one is not 0 (MANT_DIG - MIN_EXP + 2 in
\* the C library of the build)
NeedFracDigits == DBL_TRUE_MIN_EXP + 2

\* the double of the decimal ds * 10^e10 (+ a little when more), ds being
\* at most MaxSigDigits digit values without a leading 0
DecRound(ds, e10, more) ==
    IF e10 >= 0
    THEN ToDouble(BigBits(MulPow(BigOfDigits(ds, Len(ds)), 10, e10)), 0, more)
    ELSE BigDiv(BigOfDigits(ds, Len(ds)), MulPow(<<1>>, 10, -e10),
                BitLen(BigOfDigits(ds, Len(ds))) - BitLen(MulPow(<<1>>, 10, -e10)) + 1,
                more)

\* the number of the digits of ds * 10^e10 that are read: those not under
\* 10^-NeedFracDigits, and no more than MaxSigDigits
DigitsRead(ds, e10) ==
    IF Len(ds) + e10 + NeedFracDigits < MaxSigDigits
    THEN IF Len(ds) + e10 + NeedFracDigits < Len(ds)
         THEN Len(ds) + e10 + NeedFracDigits ELSE Len(ds)
    ELSE IF MaxSigDigits < Len(ds) THEN MaxSigDigits ELSE Len(ds)

\* the double of the decimal ds * 10^e10, ds being digit values without a
\* leading 0
DecDouble(ds, e10) ==
    IF ds = <<>> THEN DblZero
    ELSE IF Len(ds) + e10 - 1 > DBL_MAX_10_EXP THEN DblInf
    ELSE IF Len(ds) + e10 - 1 < -DBL_TRUE_MIN_10_EXP THEN DblZero
    ELSE DecRound(SubSeq(ds, 1, DigitsRead(ds, e10)),
                  e10 + Len(ds) - DigitsRead(ds, e10),
                  \E j \in (DigitsRead(ds, e10) + 1)..Len(ds) : ds[j] # 0)

\* the double of the hexadecimal hs * 2^x, hs being digit values
HexDouble(hs, x) ==
    ToDouble([j \in 1..(4 * Len(hs)) |->
                 (hs[(j - 1) \div 4 + 1] \div (2 ^ (3 - ((j - 1) % 4)))) % 2],
             x, FALSE)

\* An exponent past ExpLimit, either way, puts every number of the text
\* outside the doubles: the digits before it are fewer than Len(text), so
\* they weigh less than 10^Len(text) and 16^Len(text) = 2^(4 * Len(text)),
\* and no double but 0 lies below 2^-DBL_TRUE_MIN_EXP or above 2^DBL_MAX_EXP.
ExpLimit(text) == 4 * Len(text) + DBL_MAX_EXP + DBL_TRUE_MIN_EXP

\* the number the digits text[from..to) denote after acc, read from the left
\* and no further than the first value past limit
RECURSIVE ExpUpTo(_, _, _, _, _)
ExpUpTo(text, from, to, limit, acc) ==
    IF from >= to \/ acc > limit THEN acc
    ELSE ExpUpTo(text, from + 1, to, limit, 10 * acc + DigitVal(CharAt(text, from)))

\* The number the exponent digits text[from..to) denote, whatever their
\* count, when it is at most ExpLimit(text); a number past ExpLimit(text)
\* when it is more.
ExpValue(text, from, to) ==
    IF \A j \in from..(to - 1) : CharAt(text, j) = "0" THEN 0
    ELSE ExpUpTo(text,
                 CHOOSE j \in from..(to - 1) :
                     /\ CharAt(text, j) # "0"
                     /\ \A k \in from..(j - 1) : CharAt(text, k) = "0",
                 to, ExpLimit(text), 0)

\* the double of a number with the digits ds and an exponent past the
\* limit, negative or not: 0 when every digit is 0 or the exponent is
\* negative, HUGE_VAL otherwise
PastLimit(ds, negative) ==
    IF negative \/ \A j \in 1..Len(ds) : ds[j] = 0 THEN DblZero ELSE DblInf

\* the values of the digits text[from..to)
DigitVals(text, from, to) == [i \in 1..(to - from) |-> HexVal(CharAt(text, from + i - 1))]

\* the exponent part of a number whose digits end at fracEnd: the letters
\* marks introduce it, and it is taken only when a digit follows them and
\* the sign.  [end, exp, over]: over says the exponent is past
\* ExpLimit(text), and exp is the exponent when it is not.
StrtodExp(text, fracEnd, marks) ==
    LET sgn == CharAt(text, fracEnd + 1)
        expFrom == IF sgn \in {"+", "-"} THEN fracEnd + 2 ELSE fracEnd + 1
        e == ExpValue(text, expFrom, SkipDigits(text, expFrom))
    IN  IF CharAt(text, fracEnd) \in marks /\ isdigit(CharAt(text, expFrom))
        THEN [end |-> SkipDigits(text, expFrom),
              exp |-> IF sgn = "-" THEN -e ELSE e,
              over |-> e > ExpLimit(text)]
        ELSE [end |-> fracEnd, exp |-> 0, over |-> FALSE]

\* the decimal grammar:  digits [ '.' digits ] [ (e|E) [+|-] digits ]
StrtodDec(text, p, intEnd, fracEnd) ==
    LET ex == StrtodExp(text, fracEnd, {"e", "E"})
        ds == DigitVals(text, p, intEnd) \o DigitVals(text, intEnd + 1, fracEnd)
    IN  [end |-> ex.end,
         value |-> IF ex.over THEN PastLimit(ds, ex.exp < 0)
                   ELSE DecDouble(StripZeros(ds),
                                  ex.exp - (IF fracEnd > intEnd
                                            THEN fracEnd - (intEnd + 1) ELSE 0))]

\* the hexadecimal grammar, p being past the "0x":
\*   hexdigits [ '.' hexdigits ] [ (p|P) [+|-] digits ]
StrtodHex(text, p, intEnd, fracEnd) ==
    LET ex == StrtodExp(text, fracEnd, {"p", "P"})
        ds == DigitVals(text, p, intEnd) \o DigitVals(text, intEnd + 1, fracEnd)
    IN  [end |-> ex.end,
         value |-> IF ex.over THEN PastLimit(ds, ex.exp < 0)
                   ELSE HexDouble(ds, ex.exp - 4 * (IF fracEnd > intEnd
                                                    THEN fracEnd - (intEnd + 1) ELSE 0))]

\* strtod(text + p, &endptr) where text[p] is a digit, or a '.' before a digit
\* (read_token calls it in no other case).  "0x" or "0X" before a
\* hexadecimal digit, or before a '.' and a hexadecimal digit, starts a
\* hexadecimal number; before anything else the "0" alone is the number.
strtod(text, p) ==
    IF /\ CharAt(text, p) = "0"
       /\ CharAt(text, p + 1) \in {"x", "X"}
       /\ \/ isxdigit(CharAt(text, p + 2))
          \/ CharAt(text, p + 2) = "." /\ isxdigit(CharAt(text, p + 3))
    THEN StrtodHex(text, p + 2, SkipXDigits(text, p + 2),
                   IF CharAt(text, SkipXDigits(text, p + 2)) = "."
                   THEN SkipXDigits(text, SkipXDigits(text, p + 2) + 1)
                   ELSE SkipXDigits(text, p + 2))
    ELSE StrtodDec(text, p, SkipDigits(text, p),
                   IF CharAt(text, SkipDigits(text, p)) = "."
                   THEN SkipDigits(text, SkipDigits(text, p) + 1)
                   ELSE SkipDigits(text, p))

\* The digits text[from..to) as the pair <<hi, lo>> of the 16-bit halves of
\* their value modulo 2^32 (the value itself can exceed what an integer of
\* the checker holds).
Mod32Step(h, lo) == <<(10 * h[1] + lo \div 65536) % 65536, lo % 65536>>

Mod32Push(h, d) == Mod32Step(h, 10 * h[2] + d)

RECURSIVE DigitsMod32(_, _, _)
DigitsMod32(text, from, to) ==
    IF to <= from THEN <<0, 0>>
    ELSE Mod32Push(DigitsMod32(text, from, to - 1), DigitVal(CharAt(text, to - 1)))

\* first offset in [from, to) that holds no '0'
SkipZeros(text, from, to) ==
    IF \A j \in from..(to - 1) : CharAt(text, j) = "0"
    THEN IF from > to THEN from ELSE to
    ELSE CHOOSE j \in from..(to - 1) :
             /\ CharAt(text, j) # "0"
             /\ \A k \in from..(j - 1) : CharAt(text, k) = "0"

\* LONG_MAX = 2^63 - 1 on the LP64 builds of the program
LongMaxDigits ==
    <<"9", "2", "2", "3", "3", "7", "2", "0", "3", "6", "8", "5", "4", "7", "7", "5", "8", "0", "7">>

\* a > b for two digit texts of the same length
RECURSIVE DigitsGreater(_, _)
DigitsGreater(a, b) ==
    IF a = <<>> THEN FALSE
    ELSE IF Head(a) # Head(b) THEN DigitVal(Head(a)) > DigitVal(Head(b))
    ELSE DigitsGreater(Tail(a), Tail(b))

\* the digits text[f..to), f holding no leading zero, denote more than LONG_MAX
ExceedsLongFrom(text, f, to) ==
    \/ to - f > Len(LongMaxDigits)
    \/ to - f = Len(LongMaxDigits) /\ DigitsGreater(Slice(text, f, to), LongMaxDigits)

\* the digits text[from..to) denote more than LONG_MAX
ExceedsLong(text, from, to) == ExceedsLongFrom(text, SkipZeros(text, from, to), to)

\* long -> int: the low 32 bits, read as a signed int
ToInt(h) == (IF h[1] >= 32768 THEN h[1] - 65536 ELSE h[1]) * 65536 + h[2]

\* ptrdiff_t -> int: the low 32 bits of the difference of two pointers, read
\* as a signed int
IntOf(d) == ToInt(<<(d \div 65536) % 65536, d % 65536>>)

\* tok_.value.i = strtol(text + p, &endptr, 10) where text[p] is a digit:
\* the digits, saturated at LONG_MAX, then narrowed to int
StrtolTo(text, p, end) ==
    [end |-> end,
     value |-> IF ExceedsLong(text, p, end) THEN ToInt(<<65535, 65535>>)
               ELSE ToInt(DigitsMod32(text, SkipZeros(text, p, end), end))]

strtol(text, p) == StrtolTo(text, p, SkipDigits(text, p))

-----------------------------------------------------------------------------
(* Lexer::read_token *)

\* a switch that leaves ptr one character past the token
TokPast(type, end) == [type |-> type, end |-> end + 1, value |-> NoValue, err |-> <<>>]

\* What the switch of read_token yields.  type "": tok_.type is not
\* assigned; value NoValue: tok_.value is not assigned; err <<>>: no
\* exception, and then end is the final ptr.
Tok(type, end) == [type |-> type, end |-> end, value |-> NoValue, err |-> <<>>]

TokVal(type, n) == [type |-> type, end |-> n.end, value |-> n.value, err |-> <<>>]

TokInt(type, n) == [type |-> type, end |-> n.end, value |-> IntValue(n.value), err |-> <<>>]

\* a switch that yields the nil token where it should throw
ThrowNop(type, msg) == [type |-> "kTokenNop", end |-> 0, value |-> NoValue, err |-> <<>>]

\* an exception: type tells whether tok_.type was assigned before the throw
Throw(type, msg) == [type |-> type, end |-> 0, value |-> NoValue, err |-> msg]

\* the cases of the switch that make a one-character token
SingleChar(c) ==
    CASE c = "(" -> "kTokenOpen"
      [] c = ")" -> "kTokenClose"
      [] c = "[" -> "kTokenLSquare"
      [] c = "]" -> "kTokenRSquare"
      [] c = "{" -> "kTokenLCurly"
      [] c = "}" -> "kTokenRCurly"
      [] c = "*" -> "kTokenMult"
      [] c = "/" -> "kTokenDiv"
      [] c = "^" -> "kTokenPower"
      [] c = "," -> "kTokenComma"
      [] c = ";" -> "kTokenSemicolon"
      [] c = ":" -> "kTokenColon"
      [] c = "~" -> "kTokenTilde"
      [] c = "?" -> "kTokenQMark"
      [] OTHER -> ""

\* a string case that reads an unfinished string as the end of the input
ScanStringNop(end) ==
    IF end = -1 THEN Tok("kTokenNop", 0)
    ELSE Tok("kTokenString", end + 1)

\* case '\'': end is strchr(ptr + 1, '\'')
ScanString(end) ==
    IF end = -1 THEN Throw("kTokenString", <<"unfinished string">>)
    ELSE Tok("kTokenString", end + 1)

\* The switch of read_token on c, the character at offset p (the first one
\* that is no space); c1 and c2 are the two characters after it.
ScanChar(text, p, allow_glob, c, c1, c2) ==
    CASE c = NUL \/ c = "#" -> Tok("kTokenNop", p)
      [] c = "'" -> ScanString(strchr(text, p + 1, "'"))
      [] c = ">" ->
            IF c1 = "=" THEN Tok("kTokenGE", p + 2)
            ELSE IF c1 = ">" THEN Tok("kTokenAppend", p + 2)
            ELSE Tok("kTokenGT", p + 1)
      [] c = "<" ->
            IF c1 = "=" THEN Tok("kTokenLE", p + 2)
            ELSE IF c1 = ">" THEN Tok("kTokenNE", p + 2)
            ELSE Tok("kTokenLT", p + 1)
      [] c = "=" ->
            IF c1 = "=" THEN Tok("kTokenEQ", p + 2)
            ELSE Tok("kTokenAssign", p + 1)
      [] c = "+" ->
            IF c1 = "-" THEN Tok("kTokenPlusMinus", p + 2)
            ELSE IF c1 = "=" THEN Tok("kTokenAddAssign", p + 2)
            ELSE Tok("kTokenPlus", p + 1)
      [] c = "-" ->
            IF c1 = "=" THEN Tok("kTokenSubAssign", p + 2)
            ELSE Tok("kTokenMinus", p + 1)
      [] c = "!" ->
            IF c1 = "=" THEN Tok("kTokenNE", p + 2)
            ELSE Tok("kTokenBang", p + 1)
      [] c = "." ->
            IF isdigit(c1) THEN TokVal("kTokenNumber", strtod(text, p))
            ELSE IF c1 = "." THEN Tok("kTokenDots", IF c2 = "." THEN p + 3 ELSE p + 2)
            ELSE Tok("kTokenDot", p + 1)
      [] c = "@" ->
            IF c1 = "*" THEN TokInt("kTokenDataset", [end |-> p + 2, value |-> kAll])
            ELSE IF c1 = "+" THEN TokInt("kTokenDataset", [end |-> p + 2, value |-> kNew])
            ELSE IF isdigit(c1) THEN TokInt("kTokenDataset", strtol(text, p + 1))
            ELSE Throw("kTokenDataset", <<"unexpected character after '@'">>)
      [] c = "$" ->
            IF ~(isalpha(c1) \/ c1 = "_" \/ c1 = "*")
            THEN Throw("", <<"unexpected character after '$'">>)
            ELSE Tok("kTokenVarname", SkipName(text, p + 2, allow_glob))
      [] c = "%" ->
            IF ~(isalpha(c1) \/ c1 = "_" \/ c1 = "*")
            THEN Throw("", <<"unexpected character after '%'">>)
            ELSE Tok("kTokenFuncname", SkipName(text, p + 2, allow_glob))
      [] SingleChar(c) # "" -> Tok(SingleChar(c), p + 1)
      [] OTHER ->
            IF isdigit(c) THEN TokVal("kTokenNumber", strtod(text, p))
            ELSE IF isupper(c)
            THEN IF isalnum(c1) THEN Tok("kTokenCname", SkipAlnum(text, p + 1))
                 ELSE Tok("kTokenUletter", p + 1)
            ELSE IF isalpha(c) \/ c = "_"
            THEN Tok("kTokenLname", SkipName(text, p, FALSE))
            ELSE Throw("", <<"unexpected character: ", c>>)

\* a scan that never looks at the character after the first
ScanOneChar(text, p, allow_glob) ==
    ScanChar(text, p, allow_glob, CharAt(text, p), NUL, NUL)

\* the token at text[p], with the two characters after it in view
Scan(text, p, allow_glob) ==
    ScanChar(text, p, allow_glob, CharAt(text, p), CharAt(text, p + 1), CharAt(text, p + 2))

\* A lexer is the record [cur, tok, peeked] of the fields that change; the
\* operations below map the input and a lexer to the lexer afterwards, with
\* the token returned (ret) and the message of the exception thrown (err).
Lexer(cur, tok, peeked) == [cur |-> cur, tok |-> tok, peeked |-> peeked]

Result(lx, r, e) ==
    [cur |-> lx.cur, tok |-> lx.tok, peeked |-> lx.peeked, ret |-> r, err |-> e]

LexerOf(res) == Lexer(res.cur, res.tok, res.peeked)

Threw(res) == res.err # <<>>

\* an end of read_token that moves the cursor past the character it
\* throws at
ReadScannedSkipping(lx, start, sc) ==
    IF sc.err # <<>>
    THEN Result(Lexer(start + 1, lx.tok, lx.peeked), NoToken, sc.err)
    ELSE Result(Lexer(sc.end,
                      [type |-> sc.type,
                       str |-> start,
                       length |-> sc.end - start,
                       value |-> IF sc.value = NoValue THEN lx.tok.value ELSE sc.value],
                      lx.peeked),
                NoToken, <<>>)

\* The end of read_token, sc being what the switch yielded for the token
\* that starts at start.  On return tok_ is the token read and cur_ is just
\* past it.  An exception leaves cur_ and tok_.length alone, tok_.str (and
\* tok_.type, if assigned before the throw) already written.
ReadScanned(lx, start, sc) ==
    IF sc.err # <<>>
    THEN Result(Lexer(lx.cur,
                      [type |-> IF sc.type = "" THEN lx.tok.type ELSE sc.type,
                       str |-> start,
                       length |-> lx.tok.length,
                       value |-> lx.tok.value],
                      lx.peeked),
                NoToken, sc.err)
    ELSE Result(Lexer(sc.end,
                      [type |-> sc.type,
                       str |-> start,
                       length |-> sc.end - start,
                       value |-> IF sc.value = NoValue THEN lx.tok.value ELSE sc.value],
                      lx.peeked),
                NoToken, <<>>)

ReadAt(text, lx, start, allow_glob) ==
    ReadScanned(lx, start, Scan(text, start, allow_glob))

\* void Lexer::read_token(bool allow_glob)
read_token(text, lx, allow_glob) ==
    ReadAt(text, lx, SkipSpace(text, lx.cur), allow_glob)

-----------------------------------------------------------------------------
(* The operations of the Lexer *)

\* if (!peeked_) read_token();
ReadUnlessPeeked(text, lx) ==
    IF ~lx.peeked THEN read_token(text, lx, FALSE) ELSE Result(lx, NoToken, <<>>)

\* peeked_ = peeked; return tok_;  (r: the lexer after the reading, which
\* may have thrown)
ReturnTok(r, peeked) ==
    IF Threw(r) THEN r
    ELSE Result(Lexer(r.cur, r.tok, peeked), r.tok, <<>>)

\* get_token() that leaves the token pending
get_token_pending(text, lx) == ReturnTok(ReadUnlessPeeked(text, lx), TRUE)

\* Token Lexer::get_token()
get_token(text, lx) == ReturnTok(ReadUnlessPeeked(text, lx), FALSE)

\* peek_token() that does not mark the token as pending
peek_token_unmarked(text, lx) == ReturnTok(ReadUnlessPeeked(text, lx), FALSE)

\* const Token& Lexer::peek_token()
peek_token(text, lx) == ReturnTok(ReadUnlessPeeked(text, lx), TRUE)

\* go_back() that keeps a pending lookahead
go_back_keeping(text, lx, token) ==
    Result(Lexer(token.str, lx.tok, lx.peeked), NoToken, <<>>)

\* void Lexer::go_back(const Token& token)
go_back(text, lx, token) ==
    Result(Lexer(token.str, lx.tok, FALSE), NoToken, <<>>)

\* an un-peek that leaves the cursor past the pending token
UnpeekKept(lx) == Lexer(lx.cur, lx.tok, FALSE)

\* if (peeked_) { cur_ = tok_.str; peeked_ = false; }
Unpeek(lx) == IF lx.peeked THEN Lexer(lx.tok.str, lx.tok, FALSE) ELSE lx

\* Token Lexer::get_glob_token()
get_glob_token(text, lx) == ReturnTok(read_token(text, Unpeek(lx), TRUE), FALSE)

\* a loop that stops at a space only
RECURSIVE SkipWordSpaces(_, _)
SkipWordSpaces(text, p) ==
    LET c == CharAt(text, p)
    IN  IF c # NUL /\ ~isspace(c) THEN SkipWordSpaces(text, p + 1) ELSE p

\* while (*cur_ != '\0' && !isspace(*cur_) && *cur_ != ';' && *cur_ != '#') ++cur_;
RECURSIVE SkipWord(_, _)
SkipWord(text, p) ==
    LET c == CharAt(text, p)
    IN  IF c # NUL /\ ~isspace(c) /\ c # ";" /\ c # "#" THEN SkipWord(text, p + 1) ELSE p

\* while (*cur_ != '\0' && *cur_ != ';' && *cur_ != '#') ++cur_;
RECURSIVE SkipCmd(_, _)
SkipCmd(text, p) ==
    LET c == CharAt(text, p)
    IN  IF c # NUL /\ c # ";" /\ c # "#" THEN SkipCmd(text, p + 1) ELSE p

\* while (*cur_ != '\0') ++cur_;
RECURSIVE SkipLine(_, _)
SkipLine(text, p) ==
    IF CharAt(text, p) # NUL THEN SkipLine(text, p + 1) ELSE p

\* The end of get_word_token and get_rest_of_cmd: r is what get_token()
\* gave, end the cursor after the skipping loop, type the kind of the wide
\* token.
Widen(r, end, type) ==
    IF Threw(r) THEN r
    ELSE IF r.ret.type = "kTokenString" \/ r.ret.type = "kTokenNop" THEN r
    ELSE Result(Lexer(end, r.tok, r.peeked),
                [r.ret EXCEPT !.type = type, !.length = end - r.ret.str], <<>>)

WordFrom(text, r) == Widen(r, SkipWord(text, r.cur), "kTokenWord")

\* Token Lexer::get_word_token()
get_word_token(text, lx) == WordFrom(text, get_token(text, lx))

RestFrom(text, r) == Widen(r, SkipCmd(text, r.cur), "kTokenRest")

\* Token Lexer::get_rest_of_cmd()
get_rest_of_cmd(text, lx) == RestFrom(text, get_token(text, lx))

\* a rest of the line that starts after the pending token
RestOfLineCur(lx, sp, end) ==
    Result(Lexer(end, lx.tok, FALSE),
           [type |-> "kTokenRest", str |-> sp, length |-> end - sp, value |-> NoValue],
           <<>>)

\* t.str = peeked_ ? tok_.str : cur_; ... t.length = cur_ - t.str;
\* (sp: cur_ after the spaces, end: cur_ at the end of the input)
RestOfLine(lx, sp, end) ==
    Result(Lexer(end, lx.tok, FALSE),
           [type |-> "kTokenRest",
            str |-> IF lx.peeked THEN lx.tok.str ELSE sp,
            length |-> end - (IF lx.peeked THEN lx.tok.str ELSE sp),
            value |-> NoValue],
           <<>>)

RestOfLineFrom(text, lx, sp) == RestOfLine(lx, sp, SkipLine(text, sp))

\* Token Lexer::get_rest_of_line(): it calls no read_token(), and the value
\* of its local Token is not assigned
get_rest_of_line(text, lx) == RestOfLineFrom(text, lx, SkipSpace(text, lx.cur))

\* throw_syntax_error() that takes the context at any offset but 0; what it
\* reads before the start of the input are no characters of the input
throw_syntax_error_early(text, lx, msg) ==
    <<"at ">> \o S(IntOf(lx.cur))
        \o (IF IntOf(lx.cur) >= 1
            THEN <<", near ", GraveAccent>>
                 \o [i \in 1..kContext |-> CharAt(text, lx.cur - kContext + i - 1)]
                 \o <<"'">>
            ELSE <<>>)
        \o <<": ">> \o msg

\* throw_syntax_error() that gives the context only past offset kContext
throw_syntax_error_past(text, lx, msg) ==
    <<"at ">> \o S(IntOf(lx.cur))
        \o (IF IntOf(lx.cur) > kContext
            THEN <<", near ", GraveAccent>> \o Slice(text, lx.cur - kContext, lx.cur) \o <<"'">>
            ELSE <<>>)
        \o <<": ">> \o msg

\* void Lexer::throw_syntax_error(const string& msg): the message thrown.
\* pos is an int: past 2^31 - 1 characters it is not the offset of the
\* cursor any more, and the context is given or not by what it has become.
throw_syntax_error(text, lx, msg) ==
    LET pos == IntOf(lx.cur)
        s == S(pos) \o (IF pos >= kContext
                        THEN <<", near ", GraveAccent>> \o Slice(text, lx.cur - kContext, lx.cur) \o <<"'">>
                        ELSE <<>>)
    IN  <<"at ">> \o s \o <<": ">> \o msg

\* " instead of " + opening quote + s + closing quote
InsteadOfText(text, t) == <<" instead of ", GraveAccent>> \o as_string(text, t) \o <<"'">>

\* " instead of " + tokentype2str(p)
InsteadOfType(t) == <<" instead of ", tokentype2str(t.type)>>

\* an end of the overloads that consumes the token it complains about
ExpectConsuming(text, pk, mismatch, msg, instead) ==
    IF Threw(pk) THEN pk
    ELSE IF mismatch
    THEN Result(Lexer(pk.cur, pk.tok, FALSE), NoToken,
                throw_syntax_error(text, LexerOf(pk),
                    IF pk.ret.type = "kTokenNop" THEN msg ELSE msg \o instead))
    ELSE get_token(text, LexerOf(pk))

\* The common end of the five get_expected_token overloads, pk being the
\* result of their peek_token(): throw the syntax error when the test
\* failed, else get_token().
Expect(text, pk, mismatch, msg, instead) ==
    IF Threw(pk) THEN pk
    ELSE IF mismatch
    THEN Result(LexerOf(pk), NoToken,
                throw_syntax_error(text, LexerOf(pk),
                    IF pk.ret.type = "kTokenNop" THEN msg ELSE msg \o instead))
    ELSE get_token(text, LexerOf(pk))

\* Token Lexer::get_expected_token(const string& raw)
ExpectRaw(text, pk, raw) ==
    Expect(text, pk, as_string(text, pk.ret) # raw,
           <<"expected ", GraveAccent>> \o raw \o <<"'">>, InsteadOfText(text, pk.ret))

get_expected_token_raw(text, lx, raw) == ExpectRaw(text, peek_token(text, lx), raw)

\* Token Lexer::get_expected_token(TokenType tt)
ExpectType(text, pk, tt) ==
    Expect(text, pk, pk.ret.type # tt,
           <<"expected ", tokentype2str(tt)>>, InsteadOfType(pk.ret))

get_expected_token_tt(text, lx, tt) == ExpectType(text, peek_token(text, lx), tt)

\* Token Lexer::get_expected_token(TokenType tt1, TokenType tt2)
ExpectTypeType(text, pk, tt1, tt2) ==
    Expect(text, pk, pk.ret.type # tt1 /\ pk.ret.type # tt2,
           <<"expected ", tokentype2str(tt1), " or ", tokentype2str(tt2)>>,
           InsteadOfType(pk.ret))

get_expected_token_tt_tt(text, lx, tt1, tt2) ==
    ExpectTypeType(text, peek_token(text, lx), tt1, tt2)

\* Token Lexer::get_expected_token(TokenType tt, const string& raw)
ExpectTypeRaw(text, pk, tt, raw) ==
    Expect(text, pk, pk.ret.type # tt /\ as_string(text, pk.ret) # raw,
           <<"expected ", tokentype2str(tt), " or ", GraveAccent>> \o raw \o <<"'">>,
           InsteadOfText(text, pk.ret))

get_expected_token_tt_raw(text, lx, tt, raw) ==
    ExpectTypeRaw(text, peek_token(text, lx), tt, raw)

\* Token Lexer::get_expected_token(const string& raw1, const string& raw2)
ExpectRawRaw(text, pk, raw1, raw2) ==
    Expect(text, pk, as_string(text, pk.ret) # raw1 /\ as_string(text, pk.ret) # raw2,
           <<"expected ", GraveAccent>> \o raw1 \o <<"' or ", GraveAccent>> \o raw2 \o <<"'">>,
           InsteadOfText(text, pk.ret))

get_expected_token_raw_raw(text, lx, raw1, raw2) ==
    ExpectRawRaw(text, peek_token(text, lx), raw1, raw2)

\* The end of get_token_if, pk being the result of its peek_token(); the
\* value of the local Token of the else branch is not assigned.
TokenIf(text, pk, tt) ==
    IF Threw(pk) THEN pk
    ELSE IF pk.ret.type = tt THEN get_token(text, LexerOf(pk))
    ELSE Result(LexerOf(pk),
                [type |-> "kTokenNop", str |-> pk.cur, length |-> 0, value |-> NoValue],
                <<>>)

\* get_token_if() that consumes whatever comes
get_token_always(text, lx, tt) == get_token(text, lx)

\* Token Lexer::get_token_if(TokenType tt)
get_token_if(text, lx, tt) == TokenIf(text, peek_token(text, lx), tt)

-----------------------------------------------------------------------------
(* The texts the lexer is run on, and the arguments of its callers *)

\* all texts of at most n characters of the alphabet A
Texts(A, n) == UNION {[1..k -> A] : k \in 0..n}

OpChars == {" ", "<", ">", "=", "!", "+", "-", ".", "1"}
NameChars == {" ", "$", "%", "@", "*", "e", "E", "_", "1"}
TextChars == {" ", "'", "#", ";", "&", "e", "(", ".", "="}
Alphabets == {OpChars, NameChars, TextChars}

\* texts of the documentation and of the comments of read_token
Examples ==
    {<<"$", "a", " ", "=", " ", "1", ".", "5", " ", "+", " ", "2", ".", "0", "e", "-", "1">>,
     <<"$", "c", "=", "$", "a", "*", "$", "b">>,
     <<"d", "e", "l", "e", "t", "e", " ", "$", "p", "*">>,
     <<"@", "*">>, <<"@", "+">>, <<"@", "3">>,
     <<"@", "4", "2", "9", "4", "9", "6", "7", "2", "9", "5">>,
     <<"'", "a", "b", "c">>, <<"$", " ">>,
     <<"E", "1", "e", "_", "e", "1", "_">>,
     <<".", ".", ".">>,
     <<"e", " ", "=", " ", "'", "a", ";", "#", "'", " ", "#", "e">>,
     <<VT, "1">>, <<"\t", "\n", VT, "\f", "\r", "e">>,
     <<"0", "x", "1", "A">>, <<"0", "X", "1", "p", "3">>, <<"0", "x">>,
     <<"1", "e", "3", "0", "9">>, <<"1", "e", "-", "4", "0", "0">>,
     <<"1", "2", "3", "4", "5", "6", "7", "8", "9", "0", "1">>}

\* a text long enough for a syntax error to have a left context
LongPrefix == <<"E", "e", "(", "e", "=", "1", ".", "5", ")">>
TailChars == {"=", "e"}

Inputs ==
    UNION {Texts(A, MaxLen) : A \in Alphabets}
    \cup Examples
    \cup {LongPrefix \o t : t \in Texts(TailChars, MaxLen)}

\* the kinds and literals a caller asks for
ExpectTypes == {"kTokenLname", "kTokenAssign"}
ExpectRaws == {<<"=">>, <<"e">>}
IfTypes == {"kTokenLname", "kTokenNop"}

ExpectOps ==
    {"get_expected_token_raw", "get_expected_token_tt", "get_expected_token_tt_tt",
     "get_expected_token_tt_raw", "get_expected_token_raw_raw"}

-----------------------------------------------------------------------------
(* Templates: struct Tplate.  Its declaration, Tplate::as_formula(), the    *)
(* definition parser, the template manager and the command executor are    *)
(* not part of the sources at hand; they are modelled from their           *)
(* specification.                                                          *)

\* a Tplate::Component: p is the name of the template it points to (<<>>: a
\* null pointer), cargs the texts of its arguments
Component(p, cargs) == [p |-> p, cargs |-> cargs]

\* a Tplate: strings are texts; create and docs_fragment are pointers; it
\* has no component until WithComponents() gives it some
Tplate(name, fargs, defvals, rhs, create, docs_fragment) ==
    [name |-> name, fargs |-> fargs, defvals |-> defvals, rhs |-> rhs,
     traits |-> {}, components |-> <<>>,
     create |-> create, docs_fragment |-> docs_fragment]

\* the template with the components a sum of templates is made of
WithComponents(tp, components) == [tp EXCEPT !.components = components]

\* Tplate tp; tp.traits = 0; tp.create = NULL; tp.docs_fragment = NULL;
EmptyTplate == Tplate(<<>>, <<>>, <<>>, <<>>, "NULL", "NULL")

\* bool Tplate::is_coded() const
is_coded(tp) == tp.create # "NULL"

\* the arguments i.. of a formula: "a, b=1"
RECURSIVE FormulaArgs(_, _)
FormulaArgs(tp, i) ==
    IF i > Len(tp.fargs) THEN <<>>
    ELSE (IF i > 1 THEN <<",", " ">> ELSE <<>>)
         \o tp.fargs[i]
         \o (IF tp.defvals[i] # <<>> THEN <<"=">> \o tp.defvals[i] ELSE <<>>)
         \o FormulaArgs(tp, i + 1)

\* a formula that leaves out the default values: "Name(a, b) = rhs"
RECURSIVE BareArgs(_, _)
BareArgs(tp, i) ==
    IF i > Len(tp.fargs) THEN <<>>
    ELSE (IF i > 1 THEN <<",", " ">> ELSE <<>>) \o tp.fargs[i] \o BareArgs(tp, i + 1)

as_formula_bare(tp) ==
    tp.name \o <<"(">> \o BareArgs(tp, 1) \o <<")", " ", "=", " ">> \o tp.rhs

\* string Tplate::as_formula() const: "Name(a, b=1) = rhs"
as_formula(tp) ==
    tp.name \o <<"(">> \o FormulaArgs(tp, 1) \o <<")", " ", "=", " ">> \o tp.rhs

\* a comparison that overlooks the right-hand side
SameArgs(t, u) == t.fargs = u.fargs /\ t.defvals = u.defvals

\* the same formal arguments, default values and right-hand side
SameDefinition(t, u) == t.fargs = u.fargs /\ t.defvals = u.defvals /\ t.rhs = u.rhs

-----------------------------------------------------------------------------
(* The definition parser: Parser::parse_define_args(Lexer&), which reads   *)
(* "Name(arg [= default], ...) = formula" with the lexer.  A default value *)
(* is an expression, kept as its text and not evaluated: the tokens from   *)
(* the "=" to the "," or ")" that ends the argument, those inside a pair   *)
(* of parentheses of the expression not counted.  The formula is kept as   *)
(* its text: the template parsed has no components.                        *)

Parsed(tp) == [ok |-> TRUE, tp |-> tp, what |-> <<>>]
Failed(what) == [ok |-> FALSE, tp |-> EmptyTplate, what |-> what]

\* r: get_rest_of_line() after the "=": the formula
ParseRhs(text, name, fargs, defvals, r) ==
    IF as_string(text, r.ret) = <<>>
    THEN Failed(throw_syntax_error(text, LexerOf(r), <<"expected formula">>))
    ELSE Parsed(Tplate(name, fargs, defvals, as_string(text, r.ret), "NULL", "NULL"))

\* r: get_expected_token(kTokenAssign) after the ")"
ParseAssign(text, name, fargs, defvals, r) ==
    IF Threw(r) THEN Failed(r.err)
    ELSE ParseRhs(text, name, fargs, defvals, get_rest_of_line(text, LexerOf(r)))

RECURSIVE ParseArg(_, _, _, _, _)
RECURSIVE ParseSep(_, _, _, _, _)

\* the "(" of a default value that are open after a token of type tt
DepthAfter(depth, tt) ==
    IF tt = "kTokenOpen" THEN depth + 1
    ELSE IF tt = "kTokenClose" THEN depth - 1
    ELSE depth

\* the tokens an expression may start with: an operand, a sign or a "("
ValueStart ==
    {"kTokenNumber", "kTokenLname", "kTokenCname", "kTokenUletter", "kTokenVarname",
     "kTokenFuncname", "kTokenDataset", "kTokenOpen", "kTokenPlus", "kTokenMinus"}

\* the token r ends a default value of the depth: the end of the text, a
\* "=" (no expression holds one), or a "," or ")" outside the parentheses
\* of the value
EndsValue(depth, r) ==
    \/ r.ret.type \in {"kTokenNop", "kTokenAssign"}
    \/ depth = 0 /\ r.ret.type \in {"kTokenComma", "kTokenClose"}

\* r: peek_token() after the "=" of an argument and the tokens of its
\* default value read so far: the value starts at from, its last token
\* ends at last (from: no token yet), depth of its "(" are open.  The
\* value is the text from its first token to its last one.
RECURSIVE ParseValue(_, _, _, _, _, _, _, _)
ParseValue(text, name, fargs, defvals, from, last, depth, r) ==
    IF Threw(r) THEN Failed(r.err)
    ELSE IF (last = from /\ r.ret.type \notin ValueStart) \/ (depth > 0 /\ EndsValue(depth, r))
    THEN Failed(throw_syntax_error(text, LexerOf(r), <<"expected expression">>))
    ELSE IF EndsValue(depth, r)
    THEN ParseSep(text, name, fargs, defvals \o <<Slice(text, from, last)>>,
                  get_expected_token_tt_tt(text, LexerOf(r), "kTokenComma", "kTokenClose"))
    ELSE ParseValue(text, name, fargs, defvals, from,
                    get_token(text, LexerOf(r)).cur,
                    DepthAfter(depth, r.ret.type),
                    peek_token(text, LexerOf(get_token(text, LexerOf(r)))))

\* r: get_token_if(kTokenAssign) after the name of an argument
ParseDefault(text, name, fargs, defvals, r) ==
    IF Threw(r) THEN Failed(r.err)
    ELSE IF r.ret.type = "kTokenAssign"
    THEN ParseValue(text, name, fargs, defvals,
                    peek_token(text, LexerOf(r)).ret.str,
                    peek_token(text, LexerOf(r)).ret.str,
                    0, peek_token(text, LexerOf(r)))
    ELSE ParseSep(text, name, fargs, defvals \o << <<>> >>,
                  get_expected_token_tt_tt(text, LexerOf(r), "kTokenComma", "kTokenClose"))

\* r: the token where an argument may start: a name, or the ")"
ParseArg(text, name, fargs, defvals, r) ==
    IF Threw(r) THEN Failed(r.err)
    ELSE IF r.ret.type = "kTokenClose"
    THEN ParseAssign(text, name, fargs, defvals,
                     get_expected_token_tt(text, LexerOf(r), "kTokenAssign"))
    ELSE ParseDefault(text, name, fargs \o <<as_string(text, r.ret)>>, defvals,
                      get_token_if(text, LexerOf(r), "kTokenAssign"))

\* r: the token after an argument: "," (an argument follows) or ")"
ParseSep(text, name, fargs, defvals, r) ==
    IF Threw(r) THEN Failed(r.err)
    ELSE IF r.ret.type = "kTokenClose"
    THEN ParseArg(text, name, fargs, defvals, r)
    ELSE ParseArg(text, name, fargs, defvals,
                  get_expected_token_tt(text, LexerOf(r), "kTokenLname"))

\* r: get_expected_token(kTokenOpen) after the name
ParseOpen(text, name, r) ==
    IF Threw(r) THEN Failed(r.err)
    ELSE ParseArg(text, name, <<>>, <<>>,
                  get_expected_token_tt_tt(text, LexerOf(r), "kTokenLname", "kTokenClose"))

\* r: get_expected_token(kTokenCname): the name of the template
ParseName(text, r) ==
    IF Threw(r) THEN Failed(r.err)
    ELSE ParseOpen(text, as_string(text, r.ret),
                   get_expected_token_tt(text, LexerOf(r), "kTokenOpen"))

\* Tplate::Ptr Parser::parse_define_args(Lexer& lex), lex being at lx in text
parse_define_args(text, lx) ==
    ParseName(text, get_expected_token_tt(text, lx, "kTokenCname"))

-----------------------------------------------------------------------------
(* The template manager (the registry) and the command executor *)

\* the index in the sequence tps of the first template named name, at or
\* after j; 0: none
RECURSIVE FindFrom(_, _, _)
FindFrom(tps, name, j) ==
    IF j > Len(tps) THEN 0
    ELSE IF tps[j].name = name THEN j
    ELSE FindFrom(tps, name, j + 1)

\* const Tplate* TplateMgr::get_tp(name), as an index; 0: NULL
get_tp(tps, name) == FindFrom(tps, name, 1)

\* the components of the templates of the registry that point to the
\* template named name, as pairs <<template, component>>
ComponentRefs(tps, name) ==
    UNION {{<<i, c>> : c \in {k \in 1..Len(tps[i].components) :
                                 tps[i].components[k].p = name}} :
           i \in 1..Len(tps)}

\* get_shared_tp(name).use_count(): 0 for no template, else the handle
\* asked for, the one of the registry, one for each function built from
\* the template and one for each component that points to it
use_count(tps, fns, name) ==
    IF get_tp(tps, name) = 0 THEN 0
    ELSE 2 + Cardinality({i \in 1..Len(fns) : fns[i].tp = name})
           + Cardinality(ComponentRefs(tps, name))

\* the sequence without its element i
RemoveAt(seq, i) == SubSeq(seq, 1, i - 1) \o SubSeq(seq, i + 1, Len(seq))

\* what a command did to the registry: error is <<>> when it succeeded
Done(tps) == [tpvec |-> tps, error |-> <<>>]
Refused(tps, what) == [tpvec |-> tps, error |-> what]

\* an undefine that does not look at the reference count
undefine_unchecked(tps, fns, name) ==
    IF get_tp(tps, name) = 0 THEN Refused(tps, name \o <<" is not defined">>)
    ELSE Done(RemoveAt(tps, get_tp(tps, name)))

\* undefine(name): removes the template, unless it is not there or in use
undefine(tps, fns, name) ==
    IF get_tp(tps, name) = 0 THEN Refused(tps, name \o <<" is not defined">>)
    ELSE IF use_count(tps, fns, name) > 2 THEN Refused(tps, name \o <<" is in use">>)
    ELSE Done(RemoveAt(tps, get_tp(tps, name)))

\* define(template): inserts the template, or replaces the one of its name
\* unless that one is in use
define(tps, fns, tp) ==
    IF get_tp(tps, tp.name) = 0 THEN Done(Append(tps, tp))
    ELSE IF use_count(tps, fns, tp.name) > 2 THEN Refused(tps, tp.name \o <<" is in use">>)
    ELSE Done([tps EXCEPT ![get_tp(tps, tp.name)] = tp])

kDefine == <<"d", "e", "f", "i", "n", "e">>
kUndefine == <<"u", "n", "d", "e", "f", "i", "n", "e">>

\* p: the definition parsed from a define command
ExecDefine(tps, fns, p) ==
    IF p.ok THEN define(tps, fns, p.tp) ELSE Refused(tps, p.what)

\* r: the name read from an undefine command
ExecUndefine(tps, fns, cmd, r) ==
    IF Threw(r) THEN Refused(tps, r.err) ELSE undefine(tps, fns, as_string(cmd, r.ret))

\* r: the first word of the command cmd
ExecWord(tps, fns, cmd, r) ==
    IF Threw(r) THEN Refused(tps, r.err)
    ELSE IF as_string(cmd, r.ret) = kDefine
    THEN ExecDefine(tps, fns, parse_define_args(cmd, LexerOf(r)))
    ELSE IF as_string(cmd, r.ret) = kUndefine
    THEN ExecUndefine(tps, fns, cmd, get_expected_token_tt(cmd, LexerOf(r), "kTokenCname"))
    ELSE Refused(tps, <<"unknown command">>)

\* the executor runs one command: "define <formula>" or "undefine <name>"
exec(tps, fns, cmd) == ExecWord(tps, fns, cmd, get_token(cmd, Lexer(0, NoToken, FALSE)))

\* the commands i.. of cmds run in order, each on the registry the one
\* before it left; a command that fails leaves the registry as it was
RECURSIVE ExecFrom(_, _, _, _)
ExecFrom(tps, fns, cmds, i) ==
    IF i > Len(cmds) THEN tps
    ELSE ExecFrom(exec(tps, fns, cmds[i]).tpvec, fns, cmds, i + 1)

exec_all(tps, fns, cmds) == ExecFrom(tps, fns, cmds, 1)

-----------------------------------------------------------------------------
(* DefinitionMgrDlg::get_commands() *)

\* the first loop, from the committed template i on: "undefine <name>" for
\* each committed template whose name no working-copy template has
RECURSIVE UndefineRemoved(_, _, _)
UndefineRemoved(tps, modified, i) ==
    IF i > Len(tps) THEN <<>>
    ELSE (IF get_tp(modified, tps[i].name) = 0
          THEN << <<"u", "n", "d", "e", "f", "i", "n", "e", " ">> \o tps[i].name >>
          ELSE <<>>)
         \o UndefineRemoved(tps, modified, i + 1)

\* a loop body whose need_define is never cleared
DefineAlways(tps, tp, j) ==
    (IF j # 0 /\ ~SameDefinition(tp, tps[j])
     THEN << <<"u", "n", "d", "e", "f", "i", "n", "e", " ">> \o tp.name >>
     ELSE <<>>)
    \o << <<"d", "e", "f", "i", "n", "e", " ">> \o as_formula(tp) >>

\* a loop body that emits the define of a changed template before its
\* undefine
DefineThenUndefine(tps, tp, j) ==
    (IF j = 0 \/ ~SameDefinition(tp, tps[j])
     THEN << <<"d", "e", "f", "i", "n", "e", " ">> \o as_formula(tp) >>
     ELSE <<>>)
    \o (IF j # 0 /\ ~SameDefinition(tp, tps[j])
        THEN << <<"u", "n", "d", "e", "f", "i", "n", "e", " ">> \o tp.name >>
        ELSE <<>>)

\* the body of the second loop for the working-copy template tp, j being
\* the first committed template of its name (0: none)
DefineOne(tps, tp, j) ==
    (IF j # 0 /\ ~SameDefinition(tp, tps[j])
     THEN << <<"u", "n", "d", "e", "f", "i", "n", "e", " ">> \o tp.name >>
     ELSE <<>>)
    \o (IF j = 0 \/ ~SameDefinition(tp, tps[j])
        THEN << <<"d", "e", "f", "i", "n", "e", " ">> \o as_formula(tp) >>
        ELSE <<>>)

\* the second loop, from the working-copy template i on
RECURSIVE DefineChanged(_, _, _)
DefineChanged(tps, modified, i) ==
    IF i > Len(modified) THEN <<>>
    ELSE DefineOne(tps, modified[i], get_tp(tps, modified[i].name))
         \o DefineChanged(tps, modified, i + 1)

\* vector<string> DefinitionMgrDlg::get_commands()
get_commands(tps, modified) ==
    UndefineRemoved(tps, modified, 1) \o DefineChanged(tps, modified, 1)

-----------------------------------------------------------------------------
(* The dialog: class DefinitionMgrDlg.  Its handlers are operators on the  *)
(* record d of the members and widgets of the dialog; indices of the       *)
(* working copy and of the list box are 0-based, as in the code.           *)

\* wxNOT_FOUND
wxNOT_FOUND == -1

\* the label of an entry that holds no valid definition
kDash == <<"-">>

\* is_index(i, seq)
is_index(i, seq) == i >= 0 /\ i < Len(seq)

\* lb->SetSelection(n): an index outside the list selects nothing
SetSelection(items, n) == IF is_index(n, items) THEN n ELSE wxNOT_FOUND

\* wxTolower(c), of an ASCII character
wxTolower(c) ==
    IF isupper(c)
    THEN <<"a", "b", "c", "d", "e", "f", "g", "h", "i", "j", "k", "l", "m",
           "n", "o", "p", "q", "r", "s", "t", "u", "v", "w", "x", "y", "z">>[
             CHOOSE i \in 1..26 :
                 <<"A", "B", "C", "D", "E", "F", "G", "H", "I", "J", "K", "L", "M",
                   "N", "O", "P", "Q", "R", "S", "T", "U", "V", "W", "X", "Y", "Z">>[i] = c]
    ELSE c

\* wxString::IsSameAs(s, false): equal but for the case of the letters
IsSameAs(a, b) ==
    /\ Len(a) = Len(b)
    /\ \A i \in 1..Len(a) : wxTolower(a[i]) = wxTolower(b[i])

\* lb->FindString(s) != wxNOT_FOUND; FindString(s, bCase = false) does not
\* tell the case of the letters apart
HasString(items, s) == \E i \in 1..Len(items) : IsSameAs(items[i], s)

\* wxString::Trim(): without the whitespace at its right end
RECURSIVE Trim(_)
Trim(text) ==
    IF text # <<>> /\ isspace(text[Len(text)])
    THEN Trim(SubSeq(text, 1, Len(text) - 1))
    ELSE text

\* " a b": the formal arguments i.. of the description
RECURSIVE DescArgs(_, _)
DescArgs(fargs, i) ==
    IF i > Len(fargs) THEN <<>>
    ELSE <<" ">> \o fargs[i] \o DescArgs(fargs, i + 1)

\* the traits of the description
DescTraits(traits) ==
    (IF "kLinear" \in traits THEN <<" linear">> ELSE <<>>)
    \o (IF "kPeak" \in traits
        THEN (IF "kLinear" \in traits THEN <<" +">> ELSE <<>>) \o <<" peak">>
        ELSE <<>>)
    \o (IF "kSigmoid" \in traits
        THEN (IF traits \cap {"kLinear", "kPeak"} # {} THEN <<" +">> ELSE <<>>)
             \o <<" sigmoid">>
        ELSE <<>>)
    \o (IF traits = {} THEN <<" none">> ELSE <<>>)

\* " Name": the templates i.. of the registry that have a component which
\* points to the template named name, each once
RECURSIVE DescTemplates(_, _, _)
DescTemplates(tps, name, i) ==
    IF i > Len(tps) THEN <<>>
    ELSE (IF \E c \in 1..Len(tps[i].components) :
                 /\ tps[i].components[c].p # <<>>
                 /\ tps[i].components[c].p = name
          THEN <<" ">> \o tps[i].name ELSE <<>>)
         \o DescTemplates(tps, name, i + 1)

\* " %f": the functions i.. built from the template named name
RECURSIVE DescUsers(_, _, _)
DescUsers(fns, name, i) ==
    IF i > Len(fns) THEN <<>>
    ELSE (IF fns[i].tp = name THEN <<" %">> \o fns[i].name ELSE <<>>)
         \o DescUsers(fns, name, i + 1)

\* if (!used) desc += " -";
DescUsedBy(users) == IF users = <<>> THEN <<" -">> ELSE users

\* void DefinitionMgrDlg::update_desc(const Tplate& tp): the text it shows,
\* tps being the registry and fns the functions
update_desc(tps, fns, tp) ==
    S(Len(tp.fargs)) \o <<" args:">> \o DescArgs(tp.fargs, 1)
    \o <<"\ntraits:">> \o DescTraits(tp.traits)
    \o <<"\nused by:">>
    \o DescUsedBy(DescTemplates(tps, tp.name, 1) \o DescUsers(fns, tp.name, 1))

\* the label select_function() gives the entry it leaves
LeftLabel(old) == IF old.rhs = <<>> THEN kDash ELSE old.name

\* if (selected_ != wxNOT_FOUND) { ... lb->SetString(selected_, name); }
Relabel(d) ==
    IF d.selected_ = wxNOT_FOUND THEN d
    ELSE [d EXCEPT !.lb.items[d.selected_ + 1] = LeftLabel(d.modified_[d.selected_ + 1])]

\* the link to the documentation of tp
LinkOf(tp) ==
    IF tp.docs_fragment # "NULL"
    THEN [enabled |-> TRUE, url |-> <<"model.html", "#", tp.docs_fragment>>]
    ELSE [enabled |-> FALSE, url |-> <<"no docs for ">> \o tp.name]

\* the rest of select_function(): it shows the entry n, tp = modified_[n]
ShowEntry(d, tps, fns, n, tp, used) ==
    [d EXCEPT !.selected_ = n,
              !.def_tc = [value |-> as_formula(tp), editable |-> ~is_coded(tp) /\ ~used],
              !.def_label_st = IF is_coded(tp) THEN "definition (equivalent):"
                               ELSE "definition:",
              !.remove_btn = ~used,
              !.link = LinkOf(tp),
              !.desc_tc = update_desc(tps, fns, tp)]

ShowSelected(d, tps, fns, n) ==
    ShowEntry(d, tps, fns, n, d.modified_[n + 1],
              use_count(tps, fns, d.modified_[n + 1].name) > 2)

\* void DefinitionMgrDlg::select_function()
select_function(d, tps, fns) ==
    IF d.lb.sel = d.selected_ THEN d
    ELSE IF d.lb.sel = wxNOT_FOUND
    THEN [d EXCEPT !.lb.sel = SetSelection(d.lb.items, d.selected_)]
    ELSE ShowSelected(Relabel(d), tps, fns, d.lb.sel)

\* all_ok = (lb->FindString("-") == wxNOT_FOUND); ok_btn->Enable(all_ok);
EnableOk(d) == [d EXCEPT !.ok_btn = ~HasString(d.lb.items, kDash)]

\* a try block that assigns to the template before the parser has returned
TakeParsedCleared(d, tps, fns, p) ==
    IF p.ok
    THEN [d EXCEPT !.modified_[d.selected_ + 1] = p.tp,
                   !.desc_tc = update_desc(tps, fns, p.tp),
                   !.lb.items[d.selected_ + 1] = p.tp.name]
    ELSE [d EXCEPT !.modified_[d.selected_ + 1] = p.tp,
                   !.desc_tc = p.what,
                   !.lb.items[d.selected_ + 1] = kDash]

\* the try block of parse_definition() and its catch, p being what
\* parse_define_args() returned or threw
TakeParsed(d, tps, fns, p) ==
    IF p.ok
    THEN [d EXCEPT !.modified_[d.selected_ + 1] = p.tp,
                   !.desc_tc = update_desc(tps, fns, p.tp),
                   !.lb.items[d.selected_ + 1] = p.tp.name]
    ELSE [d EXCEPT !.desc_tc = p.what,
                   !.lb.items[d.selected_ + 1] = kDash]

\* parse_definition() from the trimmed text of the definition field on
ParseText(d, tps, fns, value) ==
    IF value = <<>>
    THEN [d EXCEPT !.desc_tc = <<>>,
                   !.lb.items[d.selected_ + 1] = kDash,
                   !.ok_btn = FALSE]
    ELSE EnableOk(TakeParsed(d, tps, fns, parse_define_args(value, Lexer(0, NoToken, FALSE))))

\* parse_definition() without the early return for a built-in template
parse_definition_coded(d, tps, fns) ==
    IF ~(is_index(d.selected_, d.modified_) /\ Len(d.modified_) = Len(d.lb.items))
    THEN [d EXCEPT !.phase = "aborted"]
    ELSE ParseText(d, tps, fns, Trim(d.def_tc.value))

\* void DefinitionMgrDlg::parse_definition(); a failed assert() aborts
parse_definition(d, tps, fns) ==
    IF ~(is_index(d.selected_, d.modified_) /\ Len(d.modified_) = Len(d.lb.items))
    THEN [d EXCEPT !.phase = "aborted"]
    ELSE IF is_coded(d.modified_[d.selected_ + 1]) THEN d
    ELSE ParseText(d, tps, fns, Trim(d.def_tc.value))

\* void DefinitionMgrDlg::OnAddButton(wxCommandEvent&)
OnAddButton(d, tps, fns) ==
    select_function(
        [d EXCEPT !.modified_ = Append(@, EmptyTplate),
                  !.lb = [items |-> Append(d.lb.items, kDash), sel |-> Len(d.lb.items)]],
        tps, fns)

\* lb->Delete(n): the selection of the list box after it
AfterDelete(sel, n) ==
    IF sel = n THEN wxNOT_FOUND ELSE IF sel > n THEN sel - 1 ELSE sel

\* the end of OnRemoveButton(), the entry being erased: s is the index it had
Reselect(d, tps, fns, s) ==
    IF d.modified_ = <<>> THEN d
    ELSE select_function(
             [d EXCEPT !.lb.sel = SetSelection(d.lb.items, IF s > 0 THEN s - 1 ELSE 0),
                       !.selected_ = -1],
             tps, fns)

\* void DefinitionMgrDlg::OnRemoveButton(wxCommandEvent&)
OnRemoveButton(d, tps, fns) ==
    IF ~is_index(d.selected_, d.modified_) THEN d
    ELSE Reselect([d EXCEPT !.modified_ = RemoveAt(@, d.selected_ + 1),
                            !.lb = [items |-> RemoveAt(d.lb.items, d.selected_ + 1),
                                    sel |-> AfterDelete(d.lb.sel, d.selected_)]],
                  tps, fns, d.selected_)

\* void DefinitionMgrDlg::OnOk(wxCommandEvent&)
OnOk(d) ==
    IF HasString(d.lb.items, <<"n", "e", "w">>) THEN d
    ELSE [d EXCEPT !.phase = "accepted"]

\* the names of the templates i.. of tps: lb->Append(s2wx((*i)->name))
RECURSIVE NamesFrom(_, _)
NamesFrom(tps, i) ==
    IF i > Len(tps) THEN <<>> ELSE <<tps[i].name>> \o NamesFrom(tps, i + 1)

\* the dialog as its constructor builds it, before it selects an entry
Built(tps) ==
    [modified_ |-> tps,
     selected_ |-> -1,
     lb |-> [items |-> NamesFrom(tps, 1), sel |-> SetSelection(tps, 0)],
     def_tc |-> [value |-> <<>>, editable |-> TRUE],
     desc_tc |-> <<>>,
     def_label_st |-> "definition:",
     link |-> [enabled |-> TRUE, url |-> <<"model.html">>],
     ok_btn |-> TRUE,
     remove_btn |-> TRUE,
     phase |-> "open"]

\* DefinitionMgrDlg::DefinitionMgrDlg(wxWindow* parent)
DefinitionMgrDlg(tps, fns) == select_function(Built(tps), tps, fns)

-----------------------------------------------------------------------------
(* The templates, registries and texts the dialog is run on *)

\* user-defined templates: each Ga differs from Ga1 in one field, Lo2 from
\* Lo in its right-hand side.  The default value of Ga2 is an expression
\* with a "," and a space of its own, that of Lo a number.
Ga1 == Tplate(<<"G", "a">>, << <<"a">> >>, << <<>> >>, <<"1">>, "NULL", "NULL")
Ga2 == Tplate(<<"G", "a">>, << <<"a">> >>, << <<"m", "i", "n", "(", "1", ",", " ", "2", ")">> >>,
              <<"1">>, "NULL", "NULL")
Ga3 == Tplate(<<"G", "a">>, << <<"a">> >>, << <<>> >>, <<"2">>, "NULL", "NULL")
Ga4 == Tplate(<<"G", "a">>, << <<"b">> >>, << <<>> >>, <<"1">>, "NULL", "NULL")
Lo == Tplate(<<"L", "o">>, << <<"a">>, <<"b">> >>, << <<>>, <<"1">> >>, <<"a", "*", "b">>,
             "NULL", "NULL")

Lo2 == Tplate(<<"L", "o">>, << <<"a">>, <<"b">> >>, << <<>>, <<"1">> >>, <<"a">>, "NULL", "NULL")

\* a built-in template with an equivalent formula
Co == Tplate(<<"C", "o">>, << <<"a">> >>, << <<>> >>, <<"a">>, "create_Co", <<"c", "o">>)

\* a sum of two Ga: both of its components point to the template Ga
Su == WithComponents(
          Tplate(<<"S", "u">>, << <<"a">> >>, << <<>> >>,
                 <<"G", "a", "(", "a", ")", "+", "G", "a", "(", "a", ")">>, "NULL", "NULL"),
          <<Component(<<"G", "a">>, << <<"a">> >>), Component(<<"G", "a">>, << <<"a">> >>)>>)

\* a template the name of which is "new" but for the case of a letter
New == Tplate(<<"N", "e", "w">>, << <<"a">> >>, << <<>> >>, <<"a">>, "NULL", "NULL")

UserTemplates == {Ga1, Ga2, Ga3, Ga4, Lo, Lo2}

\* the user-defined templates a registry may hold when the dialog opens
Committed == {Ga1, Lo}

\* the sequences of committed templates, no name twice
Definitions ==
    {s \in UNION {[1..k -> Committed] : k \in 0..Cardinality(Committed)} :
        \A i, j \in 1..Len(s) : i # j => s[i].name # s[j].name}

\* the registries: the built-in template or none, then the user-defined
\* templates in the order they were defined
Registries ==
    {b \o s : b \in {<<>>, <<Co>>}, s \in Definitions} \cup {<<Ga1, Su>>, <<New>>}

\* no function, or one function built from the first template of the
\* registry
FunctionsOf(tps) ==
    {<<>>} \cup {<<[name |-> <<"f">>, tp |-> tps[i].name]>> : i \in 1..Len(tps) \cap {1}}

\* a definition typed with spaces about its default value, an expression
\* with a sign: "Ga(a = -1 ) = 1"
Spaced ==
    <<"G", "a", "(", "a", " ", "=", " ", "-", "1", " ", ")", " ", "=", " ", "1">>

\* a text with no expression where the default value is due: "Ga(a==1) = 1"
NoValueText ==
    <<"G", "a", "(", "a", "=", "=", "1", ")", " ", "=", " ", "1">>

\* what the user types into the definition field: a space, the formula of
\* a template, a definition that is not written as as_formula() writes
\* it, or a text that is no definition
Typed ==
    {<<" ">>, <<"G", "a", "(">>, Spaced, NoValueText}
        \cup {as_formula(tp) : tp \in UserTemplates}

-----------------------------------------------------------------------------
(* The edit session as a state machine: the dialog is open until OK ends   *)
(* it; then its caller asks for the commands and runs them.                *)

\* the members and widgets of the dialog
Dlg ==
    [modified_ |-> modified_, selected_ |-> selected_, lb |-> lb, def_tc |-> def_tc,
     desc_tc |-> desc_tc, def_label_st |-> def_label_st, link |-> link,
     ok_btn |-> ok_btn, remove_btn |-> remove_btn, phase |-> phase]

\* the dialog is as the record d says
IsDlg(d) ==
    /\ modified_ = d.modified_
    /\ selected_ = d.selected_
    /\ lb = d.lb
    /\ def_tc = d.def_tc
    /\ desc_tc = d.desc_tc
    /\ def_label_st = d.def_label_st
    /\ link = d.link
    /\ ok_btn = d.ok_btn
    /\ remove_btn = d.remove_btn
    /\ phase = d.phase

\* a handler that writes its working copy through to the registry
HandledCommitting(d) ==
    /\ modified_' = d.modified_
    /\ selected_' = d.selected_
    /\ lb' = d.lb
    /\ def_tc' = d.def_tc
    /\ desc_tc' = d.desc_tc
    /\ def_label_st' = d.def_label_st
    /\ link' = d.link
    /\ ok_btn' = d.ok_btn
    /\ remove_btn' = d.remove_btn
    /\ phase' = d.phase
    /\ tpvec' = d.modified_
    /\ UNCHANGED <<functions, ss>>
    /\ UNCHANGED lexvars

\* a handler leaves the dialog as the record d says; it changes neither the
\* registry nor the functions
Handled(d) ==
    /\ modified_' = d.modified_
    /\ selected_' = d.selected_
    /\ lb' = d.lb
    /\ def_tc' = d.def_tc
    /\ desc_tc' = d.desc_tc
    /\ def_label_st' = d.def_label_st
    /\ link' = d.link
    /\ ok_btn' = d.ok_btn
    /\ remove_btn' = d.remove_btn
    /\ phase' = d.phase
    /\ UNCHANGED <<tpvec, functions, ss>>
    /\ UNCHANGED lexvars

\* no lexer is at work
NoLexer ==
    /\ input = <<>>
    /\ cur_ = 0
    /\ tok_ = NoToken
    /\ peeked_ = FALSE
    /\ op = "Lexer"
    /\ ret = NoToken
    /\ err = <<>>
    /\ held = NoToken

\* no dialog is open
NoDialog ==
    /\ tpvec = <<>>
    /\ functions = <<>>
    /\ IsDlg([Built(<<>>) EXCEPT !.phase = "none"])
    /\ ss = <<>>

DlgInit ==
    /\ tpvec \in Registries
    /\ functions \in FunctionsOf(tpvec)
    /\ IsDlg(DefinitionMgrDlg(tpvec, functions))
    /\ ss = <<>>
    /\ NoLexer

\* the user picks the entry n of the list box, or unpicks the picked one:
\* OnFunctionChanged() calls select_function()
OnFunctionChanged ==
    /\ phase = "open"
    /\ \E n \in -1..(Len(lb.items) - 1) :
           Handled(select_function([Dlg EXCEPT !.lb.sel = n], tpvec, functions))

\* the user changes the text of the definition field, which is editable:
\* OnDefChanged() calls parse_definition()
OnDefChanged ==
    /\ phase = "open"
    /\ def_tc.editable
    /\ \E text \in Typed :
           Handled(parse_definition([Dlg EXCEPT !.def_tc.value = text], tpvec, functions))

\* the user presses Add
AddButton ==
    /\ phase = "open"
    /\ Len(modified_) < MaxWorking
    /\ Handled(OnAddButton(Dlg, tpvec, functions))

\* the user presses Remove, which is enabled
RemoveButton ==
    /\ phase = "open"
    /\ remove_btn
    /\ Handled(OnRemoveButton(Dlg, tpvec, functions))

\* the user presses OK, which is enabled
OkButton ==
    /\ phase = "open"
    /\ ok_btn
    /\ Handled(OnOk(Dlg))

\* ShowModal() returned wxID_OK: the caller asks for the commands
GetCommands ==
    /\ phase = "accepted"
    /\ ss' = get_commands(tpvec, modified_)
    /\ phase' = "commands"
    /\ UNCHANGED <<tpvec, functions, modified_, selected_, lb, def_tc, desc_tc,
                   def_label_st, link, ok_btn, remove_btn>>
    /\ UNCHANGED lexvars

\* the caller has the executor run the commands, in order
ExecCommands ==
    /\ phase = "commands"
    /\ tpvec' = exec_all(tpvec, functions, ss)
    /\ phase' = "done"
    /\ UNCHANGED <<functions, modified_, selected_, lb, def_tc, desc_tc,
                   def_label_st, link, ok_btn, remove_btn, ss>>
    /\ UNCHANGED lexvars

DlgNext ==
    \/ OnFunctionChanged
    \/ OnDefChanged
    \/ AddButton
    \/ RemoveButton
    \/ OkButton
    \/ GetCommands
    \/ ExecCommands

vars == <<lexvars, dlgvars>>

SpecDlg == DlgInit /\ [][DlgNext]_vars

-----------------------------------------------------------------------------
(* The lexer as a state machine: one action per public operation *)

\* Lexer::Lexer(const char* input): input_(input), cur_(input), peeked_(false)
LexInit ==
    /\ input \in Inputs
    /\ cur_ = 0
    /\ tok_ = NoToken
    /\ peeked_ = FALSE
    /\ op = "Lexer"
    /\ ret = NoToken
    /\ err = <<>>
    /\ held = NoToken
    /\ NoDialog

Current == Lexer(cur_, tok_, peeked_)

\* the call named name returned or threw r
Apply(r, name) ==
    /\ cur_' = r.cur
    /\ tok_' = r.tok
    /\ peeked_' = r.peeked
    /\ ret' = r.ret
    /\ err' = r.err
    /\ op' = name
    /\ input' = input
    /\ UNCHANGED dlgvars

\* The caller keeps the token of its latest get_token() while it only looks
\* ahead, to go back to it; any other call makes it drop the token.
GetToken ==
    /\ Apply(get_token(input, Current), "get_token")
    /\ held' = ret'

PeekToken ==
    /\ Apply(peek_token(input, Current), "peek_token")
    /\ UNCHANGED held

GoBack ==
    /\ held # NoToken
    /\ op \in {"get_token", "peek_token"}
    /\ Apply(go_back(input, Current, held), "go_back")
    /\ UNCHANGED held

GetGlobToken ==
    /\ Apply(get_glob_token(input, Current), "get_glob_token")
    /\ held' = NoToken

GetWordToken ==
    /\ Apply(get_word_token(input, Current), "get_word_token")
    /\ held' = NoToken

GetRestOfCmd ==
    /\ Apply(get_rest_of_cmd(input, Current), "get_rest_of_cmd")
    /\ held' = NoToken

GetRestOfLine ==
    /\ Apply(get_rest_of_line(input, Current), "get_rest_of_line")
    /\ held' = NoToken

GetExpectedRaw ==
    \E raw \in ExpectRaws :
        /\ Apply(get_expected_token_raw(input, Current, raw), "get_expected_token_raw")
        /\ held' = NoToken

GetExpectedType ==
    \E tt \in ExpectTypes :
        /\ Apply(get_expected_token_tt(input, Current, tt), "get_expected_token_tt")
        /\ held' = NoToken

GetExpectedTypeType ==
    \E tt1 \in ExpectTypes, tt2 \in ExpectTypes \ {"kTokenLname"} :
        /\ Apply(get_expected_token_tt_tt(input, Current, tt1, tt2),
                 "get_expected_token_tt_tt")
        /\ held' = NoToken

GetExpectedTypeRaw ==
    \E tt \in ExpectTypes, raw \in ExpectRaws \ {<<"e">>} :
        /\ Apply(get_expected_token_tt_raw(input, Current, tt, raw),
                 "get_expected_token_tt_raw")
        /\ held' = NoToken

GetExpectedRawRaw ==
    \E raw1 \in ExpectRaws, raw2 \in ExpectRaws \ {<<"=">>} :
        /\ Apply(get_expected_token_raw_raw(input, Current, raw1, raw2),
                 "get_expected_token_raw_raw")
        /\ held' = NoToken

GetTokenIf ==
    \E tt \in IfTypes :
        /\ Apply(get_token_if(input, Current, tt), "get_token_if")
        /\ held' = NoToken

LexNext ==
    \/ GetToken
    \/ PeekToken
    \/ GoBack
    \/ GetGlobToken
    \/ GetWordToken
    \/ GetRestOfCmd
    \/ GetRestOfLine
    \/ GetExpectedRaw
    \/ GetExpectedType
    \/ GetExpectedTypeType
    \/ GetExpectedTypeRaw
    \/ GetExpectedRawRaw
    \/ GetTokenIf


Spec == LexInit /\ [][LexNext]_vars

-----------------------------------------------------------------------------
(* Claims about the lexer *)

\* the position the next token is read from: the start of a pending
\* lookahead, else the cursor
LogicalPos(lx) == IF lx.peeked THEN lx.tok.str ELSE lx.cur

\* p1: a first peek_token(), p2: the peek_token() after it, g: the
\* get_token() after both
PeekPeekGet(p1, p2, g) ==
    /\ ~Threw(p2) /\ p2.ret = p1.ret
    /\ LogicalPos(LexerOf(p2)) = LogicalPos(LexerOf(p1))
    /\ p2.cur = p1.cur
    /\ ~Threw(g) /\ g.ret = p1.ret
    /\ ~g.peeked
    /\ g.cur = p1.ret.str + p1.ret.length

PeekTwice(text, p1, p2) == PeekPeekGet(p1, p2, get_token(text, LexerOf(p2)))

PeekOnce(text, p1) == ~Threw(p1) => PeekTwice(text, p1, peek_token(text, LexerOf(p1)))

\* C1: from every state the lexer reaches, if peek_token() throws no lexical
\* error then a second peek_token() returns the identical token (kind, start,
\* length, value) and leaves the read position where it was, and the
\* get_token() after them returns that token again and leaves the cursor
\* just past its end with no lookahead pending.
C1_PeekPeekGet == PeekOnce(input, peek_token(input, Current))

\* peek_token() has acted on a token that is not nil, and it is pending
C1_Witness ==
    /\ op = "peek_token" /\ err = <<>>
    /\ peeked_ /\ ret = tok_ /\ ret.type = "kTokenLname" /\ ret.str > 0
    /\ cur_ = ret.str + ret.length

\* The two-character operators (and the three-dot form of ".."), with the
\* token each makes and the token its first character makes alone.
Operators ==
    {[text |-> <<"<", "=">>, type |-> "kTokenLE", single |-> "kTokenLT"],
     [text |-> <<">", "=">>, type |-> "kTokenGE", single |-> "kTokenGT"],
     [text |-> <<"!", "=">>, type |-> "kTokenNE", single |-> "kTokenBang"],
     [text |-> <<"=", "=">>, type |-> "kTokenEQ", single |-> "kTokenAssign"],
     [text |-> <<">", ">">>, type |-> "kTokenAppend", single |-> "kTokenGT"],
     [text |-> <<"+", "=">>, type |-> "kTokenAddAssign", single |-> "kTokenPlus"],
     [text |-> <<"-", "=">>, type |-> "kTokenSubAssign", single |-> "kTokenMinus"],
     [text |-> <<"+", "-">>, type |-> "kTokenPlusMinus", single |-> "kTokenPlus"],
     [text |-> <<".", ".">>, type |-> "kTokenDots", single |-> "kTokenDot"],
     [text |-> <<".", ".", ".">>, type |-> "kTokenDots", single |-> "kTokenDots"]}

Fresh == Lexer(0, NoToken, FALSE)

\* g: the first get_token() on a text: it is one token of the kind type
\* that spans the whole text, and the token after it is nil
OneToken(text, g, type) ==
    /\ ~Threw(g)
    /\ g.ret.type = type /\ g.ret.str = 0 /\ g.ret.length = Len(text)
    /\ g.cur = Len(text)
    /\ get_token(text, LexerOf(g)).ret.type = "kTokenNop"

IsOneToken(text, type) == OneToken(text, get_token(text, Fresh), type)

\* C2: when the input is one of the two-character operators, the first
\* token read is the one token of the matching kind, two characters long
\* (three for "..."), and the input without its second character reads as
\* the one-character fallback token ("..." without it is "..").
C2_Operators ==
    \A o \in Operators :
        input = o.text =>
            /\ IsOneToken(input, o.type)
            /\ IsOneToken(<<Head(o.text)>> \o Tail(Tail(o.text)), o.single)

\* get_token() has read "+-" as one token
C2_Witness ==
    /\ input = <<"+", "-">>
    /\ op = "get_token" /\ ret.type = "kTokenPlusMinus" /\ ret.length = 2 /\ cur_ = 2

\* all characters of text[from..to) are spaces
RECURSIVE AllSpace(_, _, _)
AllSpace(text, from, to) ==
    from >= to \/ (isspace(CharAt(text, from)) /\ AllSpace(text, from + 1, to))

\* t: a token get_token() returned, g: the get_token() after it
Follows(text, t, g) ==
    ~Threw(g) =>
        /\ g.ret.str >= t.str + t.length
        /\ g.ret.str > t.str
        /\ AllSpace(text, t.str + t.length, g.ret.str)
        /\ g.ret.str + g.ret.length <= Len(text)
        /\ g.ret.type # "kTokenNop" => g.ret.length >= 1

NextFollows ==
    (op = "get_token" /\ err = <<>> /\ ret.type # "kTokenNop")
        => Follows(input, ret, get_token(input, Current))

\* C3: whenever get_token() has returned a token that is not nil, the token
\* the next get_token() returns (if it throws no lexical error) starts at or
\* after the end of that token and strictly after its start, with only
\* whitespace between the two spans, and lies inside the input; and no step
\* of the lexer changes the input.
C3_DisjointSpans == [](NextFollows) /\ [][input' = input]_vars

\* get_token() has returned a second token, after a space
C3_Witness ==
    /\ op = "get_token" /\ err = <<>>
    /\ ret.type = "kTokenAssign" /\ ret.str = 2 /\ held = ret
    /\ tok_ = ret /\ cur_ = 3

\* C4: after go_back(t), t being the token the latest get_token() returned
\* (a lookahead read since then or not), get_token() throws nothing and
\* returns a token of the same kind, start and length as t.
C4_GoBack ==
    op = "go_back" =>
        /\ ~peeked_ /\ cur_ = held.str
        /\ ~Threw(get_token(input, Current))
        /\ SameSpan(get_token(input, Current).ret, held)

\* go_back(t) has acted while a lookahead read after t was pending
C4_Witness ==
    /\ op = "go_back" /\ held.type = "kTokenLname"
    /\ tok_.type = "kTokenAssign" /\ tok_.str > held.str
    /\ cur_ = held.str /\ ~peeked_

\* pk: peek_token(), r: get_token_if(tt), both from the same lexer
TokenIfMatches(text, pk, r, tt) ==
    IF pk.ret.type = tt
    THEN /\ ~Threw(r) /\ r.ret = pk.ret
         /\ ~r.peeked /\ r.cur = pk.ret.str + pk.ret.length
    ELSE /\ ~Threw(r) /\ r.ret.type = "kTokenNop" /\ r.ret.length = 0
         /\ LogicalPos(LexerOf(r)) = pk.ret.str
         /\ get_token(text, LexerOf(r)).ret = pk.ret

TokenIfAll(text, lx, pk) ==
    ~Threw(pk) => \A tt \in TokenTypes : TokenIfMatches(text, pk, get_token_if(text, lx, tt), tt)

\* C5: from every state the lexer reaches in which the next token can be
\* read, get_token_if(K) returns and consumes the next token when its kind
\* is K, and otherwise returns a nil token of length 0 and consumes nothing:
\* the get_token() after it returns the token that did not match.
C5_TokenIf == TokenIfAll(input, Current, peek_token(input, Current))

\* get_token_if() has returned nil for a token of another kind, still pending
C5_Witness ==
    /\ op = "get_token_if" /\ err = <<>>
    /\ ret.type = "kTokenNop" /\ ret.length = 0
    /\ peeked_ /\ tok_.type = "kTokenAssign"

\* s between the quotes of the messages
Quoted(s) == <<GraveAccent>> \o s \o <<"'">>

\* what the message says was expected, for each way of asking
AskedRaw(raw) == <<"expected ">> \o Quoted(raw)
AskedType(tt) == <<"expected ", tokentype2str(tt)>>
AskedTypeType(tt1, tt2) == <<"expected ", tokentype2str(tt1), " or ", tokentype2str(tt2)>>
AskedTypeRaw(tt, raw) == <<"expected ", tokentype2str(tt), " or ">> \o Quoted(raw)
AskedRawRaw(raw1, raw2) ==
    <<"expected ", GraveAccent>> \o raw1 \o <<"' or ", GraveAccent>> \o raw2 \o <<"'">>

\* what the message of the overload named name may say it expected
ExpectedOf(name) ==
    CASE name = "get_expected_token_raw" -> {AskedRaw(r) : r \in ExpectRaws}
      [] name = "get_expected_token_tt" -> {AskedType(tt) : tt \in ExpectTypes}
      [] name = "get_expected_token_tt_tt" ->
             {AskedTypeType(t[1], t[2]) : t \in ExpectTypes \X ExpectTypes}
      [] name = "get_expected_token_tt_raw" ->
             {AskedTypeRaw(a[1], a[2]) : a \in ExpectTypes \X ExpectRaws}
      [] name = "get_expected_token_raw_raw" ->
             {AskedRawRaw(r[1], r[2]) : r \in ExpectRaws \X ExpectRaws}
      [] OTHER -> {}

\* how the overload named name names the actual token t: the overloads
\* that take kinds only by its kind label, the others by its quoted text
ActualOf(name, text, t) ==
    IF name \in {"get_expected_token_tt", "get_expected_token_tt_tt"}
    THEN <<tokentype2str(t.type)>>
    ELSE Quoted(as_string(text, t))

\* the offset the message gives for the cursor at pos: pos as an int of 32
\* bits, which is pos itself below 2^31
OffsetOf(pos) == IntOf(pos)

\* the left context of the cursor at pos: the kContext characters before
\* it, given only when the offset of the message is kContext or more
NearOf(text, pos) ==
    IF OffsetOf(pos) >= kContext
    THEN <<", near ">> \o Quoted(Slice(text, pos - kContext, pos))
    ELSE <<>>

\* the actual token t is named unless it is nil
InsteadOf(name, text, t) ==
    IF t.type = "kTokenNop" THEN <<>>
    ELSE <<" instead of ">> \o ActualOf(name, text, t)

\* the message of the overload named name that asked for x, raised with
\* the cursor at pos for the actual token t
MessageOf(name, text, pos, t, x) ==
    <<"at ">> \o S(OffsetOf(pos)) \o NearOf(text, pos) \o <<": ">> \o x
        \o InsteadOf(name, text, t)

MessageForm(name, text, pos, t, e) ==
    \E x \in ExpectedOf(name) : e = MessageOf(name, text, pos, t, x)

\* an expect-variant has raised its syntax error (a lexical error of the
\* lookahead does not start with "at ")
Mismatched == op \in ExpectOps /\ err # <<>> /\ Head(err) = "at "

\* r: what the overload named name, asked for x, did when the next token
\* pk did not satisfy it: it raised the message that names x, with the
\* cursor just past the actual token, which stays pending
Raises(name, text, pk, unmet, x, r) ==
    (~Threw(pk) /\ unmet) =>
        /\ r.err = MessageOf(name, text, pk.cur, pk.ret, x)
        /\ r.ret = NoToken
        /\ r.peeked /\ LexerOf(r) = LexerOf(pk)
        /\ r.tok = pk.ret
        /\ r.cur = pk.ret.str + pk.ret.length

\* the five overloads, each asked for every kind or literal of a caller; pk
\* is the peek_token() each of them starts with
RaisesAll(text, pk) ==
    /\ \A tt \in TokenTypes :
           Raises("get_expected_token_tt", text, pk, pk.ret.type # tt,
                  AskedType(tt), ExpectType(text, pk, tt))
    /\ \A raw \in ExpectRaws :
           Raises("get_expected_token_raw", text, pk, as_string(text, pk.ret) # raw,
                  AskedRaw(raw), ExpectRaw(text, pk, raw))
    /\ \A tt1 \in ExpectTypes, tt2 \in ExpectTypes :
           Raises("get_expected_token_tt_tt", text, pk,
                  pk.ret.type # tt1 /\ pk.ret.type # tt2,
                  AskedTypeType(tt1, tt2), ExpectTypeType(text, pk, tt1, tt2))
    /\ \A tt \in ExpectTypes, raw \in ExpectRaws :
           Raises("get_expected_token_tt_raw", text, pk,
                  pk.ret.type # tt /\ as_string(text, pk.ret) # raw,
                  AskedTypeRaw(tt, raw), ExpectTypeRaw(text, pk, tt, raw))
    /\ \A raw1 \in ExpectRaws, raw2 \in ExpectRaws :
           Raises("get_expected_token_raw_raw", text, pk,
                  as_string(text, pk.ret) # raw1 /\ as_string(text, pk.ret) # raw2,
                  AskedRawRaw(raw1, raw2), ExpectRawRaw(text, pk, raw1, raw2))

\* C6 (as amended): each of the five expect-variants raises its syntax
\* error whenever the next token does not satisfy it, and the message is
\* "at <offset>", then ", near" and the quoted 10 characters before the
\* cursor only when <offset> is at least 10, then ": expected <X>", then
\* " instead of <Y>" only when the actual token is not nil.  <offset> is
\* the cursor, which is just past the actual token (the token stays
\* pending), as an int of 32 bits; <X> is what the caller asked for; <Y> is
\* the kind label of the actual token for the variants that take kinds
\* only and its quoted text for the variants that take a literal.
C6_Message ==
    /\ RaisesAll(input, peek_token(input, Current))
    /\ Mismatched =>
           /\ peeked_ /\ ret = NoToken
           /\ cur_ = tok_.str + tok_.length
           /\ MessageForm(op, input, cur_, tok_, err)

\* an expect-variant has raised its error at an offset that has a left
\* context, for an actual token that is not nil
C6_Witness ==
    /\ Mismatched /\ cur_ >= kContext /\ tok_.type = "kTokenAssign"
    /\ op = "get_expected_token_tt"

\* C6 (as stated): every message of an expect-variant has the form
\* "at <offset>, near '<context>': expected <X> instead of <Y>", the
\* context being the up to 10 characters before the offset.
C6_Original ==
    Mismatched =>
        \E x \in ExpectedOf(op) :
            err = <<"at ">> \o S(cur_) \o <<", near ">>
                    \o Quoted(Slice(input, IF cur_ >= kContext THEN cur_ - kContext ELSE 0, cur_))
                    \o <<": ">> \o x \o <<" instead of ">> \o ActualOf(op, input, tok_)


-----------------------------------------------------------------------------
(* Claims about the commands of the definition manager *)

\* C7: whenever the working copy is identical to the committed sequence,
\* get_commands() returns no command; and when the caller has asked for
\* the commands of such a working copy, it has got none.
C7_Unchanged ==
    modified_ = tpvec =>
        /\ get_commands(tpvec, modified_) = <<>>
        /\ phase = "commands" => ss = <<>>

\* the dialog was accepted untouched, on a registry of several templates,
\* and get_commands() has returned
C7_Witness ==
    /\ phase = "commands" /\ modified_ = tpvec /\ Len(tpvec) >= 2 /\ ss = <<>>

IsDefine(cmd) ==
    Len(cmd) >= 7 /\ SubSeq(cmd, 1, 7) = <<"d", "e", "f", "i", "n", "e", " ">>

IsUndefine(cmd) ==
    Len(cmd) >= 9 /\ SubSeq(cmd, 1, 9) = <<"u", "n", "d", "e", "f", "i", "n", "e", " ">>

\* the name a command is about: all after "undefine ", or what stands
\* between "define " and the "("
CommandName(cmd) ==
    IF IsUndefine(cmd) THEN SubSeq(cmd, 10, Len(cmd))
    ELSE Slice(cmd, 7, strchr(cmd, 7, "("))

\* the undefine at i is for a name the working copy has, and the define of
\* that name is the next command
DefineIsNext(cmds, modified, i) ==
    /\ get_tp(modified, CommandName(cmds[i])) # 0
    /\ i < Len(cmds)
    /\ IsDefine(cmds[i + 1])
    /\ CommandName(cmds[i + 1]) = CommandName(cmds[i])

\* the undefine at i is for a name the working copy has not, and no define
\* comes before it
RemovedIsFirst(cmds, modified, i) ==
    /\ get_tp(modified, CommandName(cmds[i])) = 0
    /\ \A j \in 1..(i - 1) : IsUndefine(cmds[j])

UndefineInPlace(cmds, modified) ==
    \A i \in 1..Len(cmds) :
        IsUndefine(cmds[i]) =>
            DefineIsNext(cmds, modified, i) \/ RemovedIsFirst(cmds, modified, i)

\* C8 (as amended): in the commands get_commands() returns for the
\* registry and the working copy of any state, the undefine of a name
\* that is absent from the working copy comes before every define, and
\* the undefine of a changed name is immediately followed by the define of
\* that name.
C8_UndefineInPlace == UndefineInPlace(get_commands(tpvec, modified_), modified_)

\* get_commands() has returned undefine, define, undefine, define for a
\* working copy of two changed templates of different names
C8_Witness ==
    /\ phase = "commands" /\ Len(ss) = 4
    /\ IsUndefine(ss[1]) /\ IsDefine(ss[2]) /\ IsUndefine(ss[3]) /\ IsDefine(ss[4])
    /\ Len(modified_) = 2 /\ modified_[1].name # modified_[2].name

AllUndefineFirst(cmds) ==
    \A i, j \in 1..Len(cmds) : (i < j /\ IsDefine(cmds[i])) => ~IsUndefine(cmds[j])

\* C8 (as stated): in the commands get_commands() returns, every undefine
\* comes before every define.
C8_Original == AllUndefineFirst(get_commands(tpvec, modified_))

Undefine(name) == <<"u", "n", "d", "e", "f", "i", "n", "e", " ">> \o name
Define(tp) == <<"d", "e", "f", "i", "n", "e", " ">> \o as_formula(tp)

\* how often the command c is in cmds
Count(cmds, c) == Cardinality({i \in 1..Len(cmds) : cmds[i] = c})

HasNamed(tps, name) == \E j \in 1..Len(tps) : tps[j].name = name

HasEqual(tps, tp) ==
    \E j \in 1..Len(tps) :
        /\ tps[j].name = tp.name
        /\ tps[j].fargs = tp.fargs
        /\ tps[j].defvals = tp.defvals
        /\ tps[j].rhs = tp.rhs

\* the working-copy template tp needs a define: no committed template has
\* its name, or the one that has differs from it
NeedsDefine(tps, tp) == ~HasEqual(tps, tp)

\* how often c is to be emitted: as the undefine of a committed template
\* whose name is gone, as the undefine of a changed working-copy template,
\* as the define of a changed or new working-copy template
ExpectedCount(tps, modified, c) ==
    Cardinality({i \in 1..Len(tps) :
                    c = Undefine(tps[i].name) /\ ~HasNamed(modified, tps[i].name)})
    + Cardinality({k \in 1..Len(modified) :
                    /\ c = Undefine(modified[k].name)
                    /\ HasNamed(tps, modified[k].name)
                    /\ ~HasEqual(tps, modified[k])})
    + Cardinality({k \in 1..Len(modified) :
                    c = Define(modified[k]) /\ NeedsDefine(tps, modified[k])})

\* the commands that may be expected, and those that are there
Candidates(tps, modified, cmds) ==
    {cmds[i] : i \in 1..Len(cmds)}
    \cup {Undefine(tps[i].name) : i \in 1..Len(tps)}
    \cup {Undefine(modified[k].name) : k \in 1..Len(modified)}
    \cup {Define(modified[k]) : k \in 1..Len(modified)}

EmitsExactly(tps, modified, cmds) ==
    \A c \in Candidates(tps, modified, cmds) :
        Count(cmds, c) = ExpectedCount(tps, modified, c)

\* C9: for the registry and the working copy of any state, get_commands()
\* holds "undefine <name>" once for each committed template whose name no
\* working-copy template has; for each working-copy template nothing when
\* the committed template of its name has equal formal args, default values
\* and right-hand side, one "undefine <name>" and one "define <formula>"
\* when that committed template differs, one "define <formula>" alone when
\* no committed template has its name; and no other command.
C9_EmitsExactly == EmitsExactly(tpvec, modified_, get_commands(tpvec, modified_))

\* get_commands() has returned the undefine of a removed template, the
\* undefine and the define of a changed one, and the define of a new one
C9_Witness ==
    /\ phase = "commands"
    /\ ss = <<Undefine(Co.name), Undefine(Ga1.name), Define(Ga3), Define(Lo2)>>
    /\ tpvec = <<Co, Ga1>>

\* the same templates, whatever their order: as many, and each of one
\* sequence equal in name, formal args, default values and right-hand side
\* to one of the other
SameTemplates(tps, modified) ==
    /\ Len(tps) = Len(modified)
    /\ \A k \in 1..Len(modified) : HasEqual(tps, modified[k])
    /\ \A j \in 1..Len(tps) : HasEqual(modified, tps[j])

\* C10: once the executor has run the commands of get_commands(), the
\* registry holds the same templates as the working copy, and
\* get_commands() on that registry and the same working copy returns no
\* command.
C10_Converges ==
    phase = "done" =>
        /\ SameTemplates(tpvec, modified_)
        /\ get_commands(tpvec, modified_) = <<>>

\* two entries of the working copy have the same name
RepeatedName(modified) ==
    \E i, j \in 1..Len(modified) : i # j /\ modified[i].name = modified[j].name

\* no two commands of cmds undefine the same name, and no two define it
NoNameTwice(cmds) ==
    \A i, j \in 1..Len(cmds) :
        (/\ i # j
         /\ IsDefine(cmds[i]) = IsDefine(cmds[j])
         /\ IsUndefine(cmds[i]) = IsUndefine(cmds[j]))
        => CommandName(cmds[i]) # CommandName(cmds[j])

\* C11: when the working copy holds two templates of the same name,
\* get_commands() returns no command at all, and the commands it returns
\* never define or undefine the same name twice.
C11_Validates ==
    phase \in {"commands", "done"} =>
        /\ RepeatedName(modified_) => ss = <<>>
        /\ NoNameTwice(ss)

\* what the definition parser makes of the text of the definition field
ParseOf(text) == parse_define_args(Trim(text), Lexer(0, NoToken, FALSE))

\* what it makes of each text the user types
TypedParse == [text \in Typed |-> ParseOf(text)]

\* the text is not handed to the parser, or the parser throws; p is what the
\* parser makes of the text
Unparsed(tp, text, p) == is_coded(tp) \/ Trim(text) = <<>> \/ ~p.ok

\* the parser is run on the text and throws
ParseFails(tp, text, p) == ~is_coded(tp) /\ Trim(text) # <<>> /\ ~p.ok

\* the entries of the working copy other than the entry k are in e as they
\* are in d
OthersKept(d, e, k) ==
    /\ Len(e.modified_) = Len(d.modified_)
    /\ \A i \in 1..Len(d.modified_) : i # k => e.modified_[i] = d.modified_[i]

\* parse_definition() with the text in the definition field took the dialog
\* from d to e: the entry k is taken all or nothing
AllOrNothing(d, e, k, text, p) ==
    /\ OthersKept(d, e, k)
    /\ Unparsed(d.modified_[k], text, p) => e.modified_ = d.modified_
    /\ ParseFails(d.modified_[k], text, p) =>
           /\ e.desc_tc = p.what
           /\ e.desc_tc # <<>>
    /\ ~Unparsed(d.modified_[k], text, p) => e.modified_[k] = p.tp

\* whatever text the user types into the definition field of the selected
\* entry, parse_definition() takes it all or nothing
DefChangeAllOrNothing ==
    (phase = "open" /\ def_tc.editable /\ is_index(selected_, modified_)) =>
        \A text \in Typed :
            AllOrNothing(Dlg, parse_definition([Dlg EXCEPT !.def_tc.value = text], tpvec, functions),
                         selected_ + 1, text, TypedParse[text])

\* the step may be OnDefChanged: the dialog stays open or aborts, with the
\* same entry selected and as many entries as before
DefChanged ==
    /\ phase = "open"
    /\ def_tc.editable
    /\ selected_' = selected_
    /\ Len(modified_') = Len(modified_)
    /\ def_tc'.value \in Typed

\* C12: a change of the definition text whose parse fails leaves the
\* selected working-copy template and every other entry as they were, leaves
\* the registry unchanged and shows the message of the parser; the selected
\* template takes the parsed value only when the whole text parses.
C12_AllOrNothing ==
    /\ []DefChangeAllOrNothing
    /\ [][DefChanged => tpvec' = tpvec]_vars

\* a text that does not parse was typed over a template that has a formula:
\* the entry is shown as "-", the message is shown, the template is kept
C12_Witness ==
    /\ phase = "open"
    /\ is_index(selected_, modified_)
    /\ ParseFails(modified_[selected_ + 1], def_tc.value, ParseOf(def_tc.value))
    /\ desc_tc = ParseOf(def_tc.value).what
    /\ lb.items[selected_ + 1] = kDash
    /\ modified_[selected_ + 1] \in Committed
    /\ Len(modified_) = 2
    /\ modified_ = tpvec

\* C13: no handler of the open dialog (select, edit the definition text,
\* add, remove, OK) changes the committed templates of the registry; they
\* change only when the executor runs the commands of get_commands().
C13_RegistryKept ==
    [][tpvec' # tpvec => (phase = "commands" /\ phase' = "done")]_vars

\* the committed template was edited in the working copy and a second
\* template was added and defined, the registry still holding the committed
\* one only
C13_Witness ==
    /\ phase = "open"
    /\ tpvec = <<Ga1>>
    /\ modified_ = <<Ga3, Lo>>
    /\ lb.items = <<Ga3.name, Lo.name>>

\* the template i of the registry has references besides the registry's own
\* and the handle that asks
InUse(tps, fns, i) == use_count(tps, fns, tps[i].name) > 2

\* r is what an undefine of the template i of tps did: refused as in use,
\* the registry as it was, the template still found under its name
RefusedInUse(tps, i, r) ==
    /\ r.error = tps[i].name \o <<" is in use">>
    /\ r.tpvec = tps
    /\ get_tp(r.tpvec, tps[i].name) # 0
    /\ r.tpvec[get_tp(r.tpvec, tps[i].name)] = tps[i]

\* C14: undefine(name) of a template that is in use fails with the "in use"
\* error and leaves the registry unchanged, the template still being found
\* under its name, both when called directly and through the command
\* "undefine <name>".
C14_UndefineInUse ==
    \A i \in 1..Len(tpvec) :
        InUse(tpvec, functions, i) =>
            /\ RefusedInUse(tpvec, i, undefine(tpvec, functions, tpvec[i].name))
            /\ RefusedInUse(tpvec, i, exec(tpvec, functions, Undefine(tpvec[i].name)))

\* the executor has run an "undefine" for the template a function is built
\* from, and the registry still holds the template
C14_Witness ==
    /\ phase = "done"
    /\ functions # <<>>
    /\ \E k \in 1..Len(ss) : ss[k] = Undefine(functions[1].tp)
    /\ get_tp(tpvec, functions[1].tp) # 0
    /\ InUse(tpvec, functions, get_tp(tpvec, functions[1].tp))

-----------------------------------------------------------------------------
(* Claims about the lexer, continued *)

\* the text is "@" and then digits only, at least one
IsDatasetIndex(text) ==
    /\ Len(text) >= 2
    /\ text[1] = "@"
    /\ \A i \in 2..Len(text) : isdigit(text[i])

\* the digits of the text "@<digits>" without their leading zeros
IndexDigits(text) == Slice(text, SkipZeros(text, 1, Len(text) - 1), Len(text))

\* g: the first get_token() on the text "@<digits>": a dataset token that
\* spans the text and carries the index the digits denote, which is neither
\* sentinel
CarriesIndex(text, g) ==
    /\ ~Threw(g)
    /\ g.ret.type = "kTokenDataset" /\ g.ret.str = 0 /\ g.ret.length = Len(text)
    /\ g.ret.value.tag = "i"
    /\ g.ret.value.m \notin {kAll, kNew}
    /\ g.ret.value.m >= 0
    /\ S(g.ret.value.m) = IndexDigits(text)

\* g: the first get_token() on "@*" or "@+": a dataset token that carries
\* the sentinel
CarriesSentinel(g, sentinel) ==
    /\ ~Threw(g)
    /\ g.ret.type = "kTokenDataset" /\ g.ret.str = 0 /\ g.ret.length = 2
    /\ g.ret.value = IntValue(sentinel)

\* C15: "@*" and "@+" read as dataset tokens that carry the sentinels "all"
\* and "new", and every "@<digits>" reads as a dataset token that carries
\* the index the digits denote, a value that is neither sentinel.
C15_Dataset ==
    /\ input = <<"@", "*">> => CarriesSentinel(get_token(input, Fresh), kAll)
    /\ input = <<"@", "+">> => CarriesSentinel(get_token(input, Fresh), kNew)
    /\ IsDatasetIndex(input) => CarriesIndex(input, get_token(input, Fresh))

\* where the next token starts: after the spaces at the position the next
\* token is read from
NextStart(text, lx) == SkipSpace(text, LogicalPos(lx))

\* r: what a reading operation did: it raised the lexical error of the
\* unfinished string and returned no token
RaisedUnfinished(r) == r.err = <<"unfinished string">> /\ r.ret = NoToken

\* r: what a reading operation did: it returned the string token from the
\* quote at start through the quote at end
ReadString(r, start, end) ==
    /\ ~Threw(r)
    /\ r.ret.type = "kTokenString"
    /\ r.ret.str = start
    /\ r.ret.length = end + 1 - start

\* the next token starts with the quote at start; end is the offset of the
\* first quote after it, -1 if there is none
QuotedNext(text, lx, start, end) ==
    \A r \in {get_token(text, lx), peek_token(text, lx), get_glob_token(text, lx),
              get_word_token(text, lx), get_rest_of_cmd(text, lx)} :
        IF end = -1 THEN RaisedUnfinished(r) ELSE ReadString(r, start, end)

\* C16: when the next token starts with a quote, get_token, peek_token,
\* get_glob_token, get_word_token and get_rest_of_cmd raise a lexical error
\* if no quote follows in the rest of the input, and otherwise return the
\* string token from the opening quote through the first quote after it,
\* whatever lies between.
C16_QuotedString ==
    CharAt(input, NextStart(input, Current)) = "'" =>
        QuotedNext(input, Current, NextStart(input, Current),
                   strchr(input, NextStart(input, Current) + 1, "'"))

\* get_rest_of_cmd() has returned a string token with ";" and "#" between
\* its quotes
C16_Witness ==
    /\ op = "get_rest_of_cmd"
    /\ err = <<>>
    /\ ret.type = "kTokenString"
    /\ as_string(input, ret) = <<"'", "a", ";", "#", "'">>

\* the characters a token can start with, besides the end of the input
TokenStarts ==
    {"#", "'", ">", "<", "=", "+", "-", "!", ".", "@", "$", "%",
     "(", ")", "[", "]", "{", "}", "*", "/", "^", ",", ";", ":", "~", "?", "_"}

IsTokenStart(c) == c = NUL \/ c \in TokenStarts \/ isdigit(c) \/ isalpha(c)

\* the message of the lexical error for the token start c followed by c1;
\* <<>> when the start is well-formed
MalformedStart(c, c1) ==
    IF c \in {"$", "%"} /\ ~(isalpha(c1) \/ c1 = "_" \/ c1 = "*")
    THEN <<"unexpected character after '" \o c \o "'">>
    ELSE IF c = "@" /\ ~(c1 = "*" \/ c1 = "+" \/ isdigit(c1))
    THEN <<"unexpected character after '@'">>
    ELSE IF ~IsTokenStart(c) THEN <<"unexpected character: ", c>>
    ELSE <<>>

\* get_token, peek_token and get_glob_token raise the lexical error msg and
\* return no token
AllRaise(text, lx, msg) ==
    \A r \in {get_token(text, lx), peek_token(text, lx), get_glob_token(text, lx)} :
        r.err = msg /\ r.ret = NoToken

\* no lookahead is pending and the next token has the malformed start c, c1:
\* reading it raises the error for that start
MalformedRaises(text, lx, c, c1) ==
    (~lx.peeked /\ MalformedStart(c, c1) # <<>>) => AllRaise(text, lx, MalformedStart(c, c1))

\* C17: a malformed token start raises a lexical error and produces no
\* token: "$" or "%" not followed by a letter, "_" or "*", and "@" not
\* followed by "*", "+" or a digit, raise "unexpected character after"
\* with the leading character quoted; a leading character no token starts
\* with raises "unexpected character: " with that character.
C17_MalformedStart ==
    MalformedRaises(input, Current,
                    CharAt(input, SkipSpace(input, cur_)),
                    CharAt(input, SkipSpace(input, cur_) + 1))

\* get_token() on "$ " has raised the error of the "$"
C17_Witness ==
    /\ input = <<"$", " ">>
    /\ op = "get_token"
    /\ err = <<"unexpected character after '$'">>
    /\ ret = NoToken
    /\ cur_ = 0

\* the message msg has the character c as a part of its own
Names(msg, c) == \E i \in 1..Len(msg) : msg[i] = c

\* C17 as stated: the message of the error for "$" followed by a character
\* that may not follow it names that character, as the message for a
\* leading character no token starts with does.
C17_Original ==
    (/\ ~peeked_
     /\ MalformedStart(CharAt(input, SkipSpace(input, cur_)),
                       CharAt(input, SkipSpace(input, cur_) + 1)) # <<>>
     /\ (\/ CharAt(input, SkipSpace(input, cur_)) = "$"
         \/ ~IsTokenStart(CharAt(input, SkipSpace(input, cur_)))))
    => LET c == CharAt(input, SkipSpace(input, cur_))
           c1 == CharAt(input, SkipSpace(input, cur_) + 1)
           r == get_token(input, Current)
       IN  /\ Threw(r)
           /\ r.ret = NoToken
           /\ Names(r.err, IF c = "$" THEN c1 ELSE c)

\* the characters of an identifier after its first one
IsNameChar(c, stars) == isalnum(c) \/ c = "_" \/ (stars /\ c = "*")

\* the end of the identifier whose first character is at p - 1: the first
\* offset at or after p that holds no identifier character
NameEnd(text, p, stars) ==
    CHOOSE q \in p..Len(text) :
        /\ \A i \in p..(q - 1) : IsNameChar(CharAt(text, i), stars)
        /\ ~IsNameChar(CharAt(text, q), stars)

\* the kind of the name the character c introduces
NameKind(c) == IF c = "$" THEN "kTokenVarname" ELSE "kTokenFuncname"

\* r: what a reading operation did: it returned the name token from start
\* to end
ReadName(text, r, start, end) ==
    /\ ~Threw(r)
    /\ r.ret.type = NameKind(CharAt(text, start))
    /\ r.ret.str = start
    /\ r.ret.length = end - start

\* the name at start, whose first character (a letter, "_" or "*") is at
\* start + 1: get_token() ends it before the first "*", get_glob_token()
\* reads every "*" into it
NameModes(text, lx, start) ==
    /\ ReadName(text, get_token(text, lx), start, NameEnd(text, start + 2, FALSE))
    /\ ReadName(text, get_glob_token(text, lx), start, NameEnd(text, start + 2, TRUE))

\* the kinds and texts of the tokens of text from the lexer lx on, up to
\* the nil token or the first error
RECURSIVE TokensFrom(_, _, _)
TokensFrom(text, lx, n) ==
    LET g == get_token(text, lx)
    IN  IF n = 0 \/ Threw(g) \/ g.ret.type = "kTokenNop" THEN <<>>
        ELSE << <<g.ret.type, as_string(text, g.ret)>> >> \o TokensFrom(text, LexerOf(g), n - 1)

\* "$c=$a*$b" in default mode
ProductTokens ==
    << <<"kTokenVarname", <<"$", "c">> >>, <<"kTokenAssign", <<"=">> >>,
       <<"kTokenVarname", <<"$", "a">> >>, <<"kTokenMult", <<"*">> >>,
       <<"kTokenVarname", <<"$", "b">> >> >>

\* C18: for a "$name" or "%name" next in the input, get_token() ends the
\* identifier before the first "*" after its first character, and
\* get_glob_token() reads every following "*" into it; a "*" right after
\* the "$" or "%" is the first character in both modes; "$c=$a*$b" reads
\* as "$c", "=", "$a", "*", "$b".
C18_Glob ==
    /\ (/\ ~peeked_
        /\ CharAt(input, SkipSpace(input, cur_)) \in {"$", "%"}
        /\ MalformedStart(CharAt(input, SkipSpace(input, cur_)),
                          CharAt(input, SkipSpace(input, cur_) + 1)) = <<>>)
       => NameModes(input, Current, SkipSpace(input, cur_))
    /\ input = <<"$", "c", "=", "$", "a", "*", "$", "b">>
       => TokensFrom(input, Fresh, Len(input)) = ProductTokens

\* get_glob_token() has read "$p*" as one name where get_token() would
\* have stopped before the "*"
C18_Witness ==
    /\ input = <<"d", "e", "l", "e", "t", "e", " ", "$", "p", "*">>
    /\ op = "get_glob_token"
    /\ ret.type = "kTokenVarname"
    /\ as_string(input, ret) = <<"$", "p", "*">>
    /\ cur_ = Len(input)

\* r: what a reading operation did: it returned the nil token of length 0
\* at pos without raising, the cursor at pos
ReadNil(r, pos) ==
    /\ ~Threw(r)
    /\ r.ret.type = "kTokenNop"
    /\ r.ret.str = pos
    /\ r.ret.length = 0
    /\ r.cur = pos

\* g: a get_token() that found the end of the input or the "#" at pos: it
\* returned nil, and the get_token() after it finds the lexer as it is and
\* returns the same nil token
NilAgain(text, g, pos) ==
    /\ ReadNil(g, pos)
    /\ ~g.peeked
    /\ get_token(text, LexerOf(g)) = g

\* p: a peek_token() that found the end of the input or the "#" at pos: it
\* returned nil, and so do the get_token() calls after it
NilPeeked(text, p, pos) ==
    /\ ReadNil(p, pos)
    /\ NilAgain(text, get_token(text, LexerOf(p)), pos)

\* C19: when the position the next token is read from is, after the
\* spaces, the end of the input or a "#", get_token() and peek_token()
\* return the nil token of length 0 without raising and leave the cursor
\* there, so every later get_token() returns nil again.
C19_NilStays ==
    CharAt(input, NextStart(input, Current)) \in {NUL, "#"} =>
        /\ NilAgain(input, get_token(input, Current), NextStart(input, Current))
        /\ NilPeeked(input, peek_token(input, Current), NextStart(input, Current))

\* get_token() has returned nil at the "#" that follows the string, the
\* "#" inside the string having been read as a part of it
C19_Witness ==
    /\ input = <<"e", " ", "=", " ", "'", "a", ";", "#", "'", " ", "#", "e">>
    /\ op = "get_token"
    /\ err = <<>>
    /\ ret.type = "kTokenNop"
    /\ ret.str = 10
    /\ ret.length = 0
    /\ cur_ = 10
    /\ ~peeked_

\* a word ends before the character c
EndsWord(c) == c = NUL \/ isspace(c) \/ c = ";" \/ c = "#"

\* the first offset at or after p that holds a space, ";" or "#", or the
\* end of the input
WordStop(text, p) ==
    CHOOSE q \in p..Len(text) :
        /\ \A i \in p..(q - 1) : ~EndsWord(CharAt(text, i))
        /\ EndsWord(CharAt(text, q))

\* w: what get_word_token() did where get_token() would have returned the
\* token t: the word from the start of t to stop, the cursor at stop, no
\* lookahead pending
ReadWord(w, t, stop) ==
    /\ ~Threw(w)
    /\ w.ret.type = "kTokenWord"
    /\ w.ret.str = t.str
    /\ w.ret.length = stop - t.str
    /\ w.cur = stop
    /\ ~w.peeked

\* g: what get_token() would do, w: what get_word_token() does
WordOf(text, g, w) ==
    IF Threw(g) THEN Threw(w)
    ELSE IF g.ret.type \in {"kTokenString", "kTokenNop"} THEN w = g
    ELSE ReadWord(w, g.ret, WordStop(text, g.ret.str + g.ret.length))

\* C20: get_word_token() returns the next token as get_token() would when
\* it is a quoted string or nil; otherwise it returns the word token that
\* starts where the next token starts and ends before the first space, ";"
\* or "#" at or after the end of that token, or at the end of the input,
\* and leaves the cursor there with no lookahead pending.
C20_Word ==
    WordOf(input, get_token(input, Current), get_word_token(input, Current))

\* get_word_token() has read "$c=$a*$b" as one word, which get_token()
\* reads as five tokens
C20_Witness ==
    /\ input = <<"$", "c", "=", "$", "a", "*", "$", "b">>
    /\ op = "get_word_token"
    /\ ret.type = "kTokenWord"
    /\ ret.str = 0
    /\ ret.length = 8
    /\ cur_ = 8
    /\ ~peeked_

-----------------------------------------------------------------------------
(* Claims about the dialog, continued *)

\* parse_definition() leaves the dialog d as it is
Untouched(d, tps, fns) == parse_definition(d, tps, fns) = d

\* the selected entry is a built-in template: whatever the definition
\* field holds, parse_definition() changes nothing, and the field is
\* read-only
CodedSelectedKept ==
    (is_index(selected_, modified_) /\ is_coded(modified_[selected_ + 1])) =>
        /\ ~def_tc.editable
        /\ \A text \in Typed : Untouched([Dlg EXCEPT !.def_tc.value = text], tpvec, functions)

\* picking the entry n, a built-in template, makes the definition field
\* read-only
CodedPickedReadOnly(n) ==
    is_coded(modified_[n + 1]) =>
        ~select_function([Dlg EXCEPT !.lb.sel = n], tpvec, functions).def_tc.editable

\* C21: a built-in (natively implemented) template of the working copy is
\* not changed by editing: parse_definition() leaves the dialog untouched
\* whatever text the definition field holds, and select_function() makes
\* the definition field read-only.
C21_CodedKept ==
    phase = "open" =>
        /\ CodedSelectedKept
        /\ \A n \in 0..(Len(modified_) - 1) : CodedPickedReadOnly(n)

\* the built-in template is selected next to a user-defined one that was
\* edited: its field is read-only and labelled as an equivalent definition
C21_Witness ==
    /\ phase = "open"
    /\ modified_ = <<Co, Ga3>>
    /\ tpvec = <<Co, Ga1>>
    /\ selected_ = 0
    /\ ~def_tc.editable
    /\ def_tc.value = as_formula(Co)
    /\ def_label_st = "definition (equivalent):"

-----------------------------------------------------------------------------
(* Claims about the lexer, continued *)

\* the end of the run of letters and digits that starts at p
AlnumEnd(text, p) ==
    CHOOSE q \in p..Len(text) :
        /\ \A i \in p..(q - 1) : isalnum(CharAt(text, i))
        /\ ~isalnum(CharAt(text, q))

\* r: what get_token() did: it returned the token of the kind type from
\* start to end
ReadKind(r, type, start, end) ==
    /\ ~Threw(r)
    /\ r.ret.type = type
    /\ r.ret.str = start
    /\ r.ret.length = end - start

\* g: the get_token() of a token that starts at start with the letter or
\* "_" c, followed by c1
NameToken(text, g, start, c, c1) ==
    IF isupper(c)
    THEN IF isalnum(c1) THEN ReadKind(g, "kTokenCname", start, AlnumEnd(text, start + 1))
         ELSE ReadKind(g, "kTokenUletter", start, start + 1)
    ELSE ReadKind(g, "kTokenLname", start, NameEnd(text, start + 1, FALSE))

\* C22: a token that starts with an uppercase letter is the one-letter
\* token when the next character is no letter or digit, and otherwise the
\* CamelCase name that covers the run of letters and digits, no "_"; a
\* token that starts with a lowercase letter or "_" is the lowercase name
\* that covers the run of letters, digits and "_".
C22_Names ==
    (isalpha(CharAt(input, NextStart(input, Current)))
        \/ CharAt(input, NextStart(input, Current)) = "_")
    => NameToken(input, get_token(input, Current), NextStart(input, Current),
                 CharAt(input, NextStart(input, Current)),
                 CharAt(input, NextStart(input, Current) + 1))

\* get_token() has read "E1e" of "E1e_e1_" as a CamelCase name and stopped
\* at the "_"
C22_Witness ==
    /\ input = <<"E", "1", "e", "_", "e", "1", "_">>
    /\ op = "get_token"
    /\ ret.type = "kTokenCname"
    /\ ret.str = 0
    /\ ret.length = 3
    /\ cur_ = 3
-----------------------------------------------------------------------------
(* Claims about the dialog, continued *)

\* the template has a formula
HasFormula(tp) == tp.rhs # <<>>

\* p is what the definition parser makes of a formula of tp: a template of
\* the same name, formal arguments, default values and right-hand side
ParsedBack(tp, p) ==
    /\ p.ok
    /\ p.tp.name = tp.name
    /\ p.tp.fargs = tp.fargs
    /\ p.tp.defvals = tp.defvals
    /\ p.tp.rhs = tp.rhs

\* the commands get_commands() gives for a working copy of tp alone and a
\* registry without it are the one "define <formula>", and running them
\* makes a registry of one template equal to tp but for its native
\* implementation and its components
Recreated(tp, cmds) ==
    /\ cmds = << <<"d", "e", "f", "i", "n", "e", " ">> \o as_formula(tp) >>
    /\ exec_all(<<>>, <<>>, cmds) =
           << [tp EXCEPT !.create = "NULL", !.docs_fragment = "NULL",
                         !.components = <<>>] >>

RoundTrips(tp) ==
    HasFormula(tp) =>
        /\ ParsedBack(tp, parse_define_args(as_formula(tp), Lexer(0, NoToken, FALSE)))
        /\ Recreated(tp, get_commands(<<>>, <<tp>>))

\* C23: for every template t that has a formula, of the working copy or of
\* the registry, the definition parser makes of t.as_formula() a template
\* of the same name, formal arguments, default values and right-hand side,
\* and the "define <formula>" that get_commands() emits for t recreates a
\* template equal to t.  The default values are none, a number, or an
\* expression of several tokens, typed as as_formula() writes it or not.
C23_RoundTrip ==
    /\ \A i \in 1..Len(modified_) : RoundTrips(modified_[i])
    /\ \A i \in 1..Len(tpvec) : RoundTrips(tpvec[i])

\* the default value is an expression of several tokens, with a "," and a
\* space inside its parentheses
NestedValue(v) ==
    \E a, b, c \in 1..Len(v) :
        a < b /\ b < c /\ v[a] = "(" /\ v[b] = "," /\ v[b + 1] = " " /\ v[c] = ")"

\* the executor has run the define of a template with a default value that
\* the user typed, an expression with a "," of its own, and the registry
\* holds the template of the working copy
C23_Witness ==
    /\ phase = "done"
    /\ \E i \in 1..Len(modified_) :
           /\ \E j \in 1..Len(modified_[i].defvals) : NestedValue(modified_[i].defvals[j])
           /\ \E k \in 1..Len(ss) : ss[k] = Define(modified_[i])
           /\ \E j \in 1..Len(tpvec) : tpvec[j] = modified_[i]

\* the command is an "undefine" of a committed template that is in use
UndefinesInUse(cmd) ==
    /\ IsUndefine(cmd)
    /\ get_tp(tpvec, CommandName(cmd)) # 0
    /\ use_count(tpvec, functions, CommandName(cmd)) > 2

\* C24: the commands that get_commands() returns hold no "undefine <name>"
\* for a committed template that is still in use.
C24_NoUndefineInUse ==
    phase = "commands" => \A k \in 1..Len(ss) : ~UndefinesInUse(ss[k])

\* the assertions at the head of parse_definition()
Asserted(d) == is_index(d.selected_, d.modified_) /\ Len(d.modified_) = Len(d.lb.items)

\* C25: whenever parse_definition() runs, which is whenever the text of the
\* editable definition field changes, selected_ is an index of modified_
\* and modified_ has as many entries as the list box; no run of it aborts.
C25_Asserts ==
    /\ (phase = "open" /\ def_tc.editable) => Asserted(Dlg)
    /\ phase # "aborted"

\* the entry i of the working copy is invalid: shown as "-", or neither
\* built-in nor holding a parsed definition
Invalid(i) ==
    \/ lb.items[i] = kDash
    \/ ~is_coded(modified_[i]) /\ modified_[i].rhs = <<>>

\* C26: while an entry of the working copy is invalid the OK button is
\* disabled or OnOk() does not end the dialog; a dialog that was accepted
\* has no invalid entry.
C26_OkOnlyValid ==
    /\ (phase = "open" /\ \E i \in 1..Len(modified_) : Invalid(i)) =>
           (~ok_btn \/ OnOk(Dlg).phase = "open")
    /\ phase = "accepted" => \A i \in 1..Len(modified_) : ~Invalid(i)
-----------------------------------------------------------------------------
(* Claims about the lexer, continued *)

\* the kinds and texts an expect-variant is called with: those of its
\* callers and those of the token pk that comes next
KindsFor(pk) == ExpectTypes \cup {pk.ret.type}
RawsFor(text, pk) == ExpectRaws \cup {as_string(text, pk.ret)}

\* r: what an expect-variant did for the next token pk that did not
\* satisfy it: it raised its syntax error and pk is still pending, so the
\* next get_token() and peek_token() return it
StillPending(text, pk, r) ==
    /\ Threw(r) /\ Head(r.err) = "at " /\ r.ret = NoToken
    /\ r.peeked /\ r.tok = pk.ret /\ r.cur = pk.cur
    /\ get_token(text, LexerOf(r)).ret = pk.ret
    /\ get_token(text, LexerOf(r)).err = <<>>
    /\ peek_token(text, LexerOf(r)).ret = pk.ret
    /\ peek_token(text, LexerOf(r)).err = <<>>

\* r: what an expect-variant did for the next token pk that satisfied it:
\* it returned pk and nothing is pending
Consumed(pk, r) ==
    /\ ~Threw(r)
    /\ r.ret = pk.ret
    /\ ~r.peeked
    /\ r.cur = pk.cur

\* r: what an expect-variant did, matches telling whether pk satisfied it
Expected(text, pk, matches, r) ==
    IF matches THEN Consumed(pk, r) ELSE StillPending(text, pk, r)

ExpectedAll(text, lx, pk) ==
    /\ \A tt \in KindsFor(pk) :
           Expected(text, pk, pk.ret.type = tt, get_expected_token_tt(text, lx, tt))
    /\ \A raw \in RawsFor(text, pk) :
           Expected(text, pk, as_string(text, pk.ret) = raw,
                    get_expected_token_raw(text, lx, raw))
    /\ \A tt1 \in KindsFor(pk), tt2 \in KindsFor(pk) :
           Expected(text, pk, pk.ret.type = tt1 \/ pk.ret.type = tt2,
                    get_expected_token_tt_tt(text, lx, tt1, tt2))
    /\ \A tt \in KindsFor(pk), raw \in RawsFor(text, pk) :
           Expected(text, pk, pk.ret.type = tt \/ as_string(text, pk.ret) = raw,
                    get_expected_token_tt_raw(text, lx, tt, raw))
    /\ \A raw1 \in RawsFor(text, pk), raw2 \in RawsFor(text, pk) :
           Expected(text, pk, as_string(text, pk.ret) = raw1 \/ as_string(text, pk.ret) = raw2,
                    get_expected_token_raw_raw(text, lx, raw1, raw2))

\* C27: when the next token can be read, each expect-variant either finds
\* that it matches, consumes it and returns it, or raises its mismatch
\* error and leaves it pending, so that the next get_token() and the next
\* peek_token() return that same token; a lexer on which the latest call
\* raised a mismatch error has the offending token pending.
C27_MismatchKeeps ==
    /\ ~Threw(peek_token(input, Current)) =>
           ExpectedAll(input, Current, peek_token(input, Current))
    /\ Mismatched =>
           /\ peeked_
           /\ get_token(input, Current).ret = tok_
           /\ peek_token(input, Current).ret = tok_

\* an expect-variant has raised its mismatch error for an "=" that is not
\* the first token of the input, and the "=" is pending
C27_Witness ==
    /\ Mismatched
    /\ peeked_
    /\ tok_.type = "kTokenAssign"
    /\ tok_.str > 0
    /\ cur_ = tok_.str + tok_.length

\* r: what get_glob_token() did while the token t was pending: it returned
\* a token that starts where t starts and is at least as long, nothing is
\* pending and the cursor is just past the token returned
Reread(t, r) ==
    /\ ~Threw(r)
    /\ r.ret.str = t.str
    /\ r.ret.length >= t.length
    /\ ~r.peeked
    /\ r.cur = r.ret.str + r.ret.length
    /\ r.tok = r.ret

\* C28: get_glob_token() called while a lookahead token is pending drops
\* the lookahead and reads again from the start of the pending token: the
\* token it returns starts where the pending token starts and is at least
\* as long; afterwards no lookahead is pending and the cursor is just past
\* the token returned.
C28_GlobReread == peeked_ => Reread(tok_, get_glob_token(input, Current))

\* the name "$a" of "$c=$a*$b" is pending, and get_glob_token() reads
\* "$a*" from its start
C28_Witness ==
    /\ peeked_
    /\ tok_.type = "kTokenVarname"
    /\ as_string(input, tok_) = <<"$", "a">>
    /\ LET r == get_glob_token(input, Current)
       IN  /\ r.ret.str = tok_.str
           /\ r.ret.type = "kTokenVarname"
           /\ as_string(input, r.ret) = <<"$", "a", "*">>
           /\ r.cur = tok_.str + 3

\* where get_rest_of_line() starts its token on the lexer lx: at the start
\* of the pending token, else at the first character at or after the
\* cursor that is no space (the end of the input, if there is none)
IsRestStart(text, lx, start) ==
    IF lx.peeked THEN start = lx.tok.str
    ELSE /\ start >= lx.cur
         /\ start <= Len(text)
         /\ \A p \in lx.cur..(start - 1) : isspace(CharAt(text, p))
         /\ ~isspace(CharAt(text, start))

\* g: a get_token(): it returned nil and left nothing pending
GaveNil(g) == ~Threw(g) /\ g.ret.type = "kTokenNop" /\ g.ret.length = 0 /\ ~g.peeked

\* r: what get_rest_of_line() did on the lexer lx: it raised nothing and
\* returned the rest-of-line token from its start through the end of the
\* input; nothing is pending, and the get_token() calls after it return nil
RestRead(text, lx, r) ==
    /\ ~Threw(r)
    /\ r.ret.type = "kTokenRest"
    /\ IsRestStart(text, lx, r.ret.str)
    /\ r.ret.str + r.ret.length = Len(text)
    /\ ~r.peeked
    /\ GaveNil(get_token(text, LexerOf(r)))
    /\ GaveNil(get_token(text, LexerOf(get_token(text, LexerOf(r)))))

\* C29: get_rest_of_line() never raises; it returns a rest-of-line token
\* that starts at the start of the pending lookahead token (when none is
\* pending, at the first character at or after the cursor that is no
\* space) and ends at the end of the input, ";" and "#" included;
\* afterwards no lookahead is pending and get_token() returns nil.
C29_RestOfLine == RestRead(input, Current, get_rest_of_line(input, Current))

\* get_rest_of_line() has returned the rest from the "=" that was pending
\* through the end of the input, with the ";" and the "#" in it
C29_Witness ==
    /\ input = <<"e", " ", "=", " ", "'", "a", ";", "#", "'", " ", "#", "e">>
    /\ op = "get_rest_of_line"
    /\ err = <<>>
    /\ tok_.type = "kTokenAssign"
    /\ ret.type = "kTokenRest"
    /\ ret.str = tok_.str
    /\ ret.str + ret.length = Len(input)
    /\ cur_ = Len(input)
    /\ ~peeked_

\* g: a get_token() on the lexer lx: a token other than nil has at least
\* one character, lies within the input, and moves the position the next
\* token is read from forward
Advances(text, lx, g) ==
    (~Threw(g) /\ g.ret.type # "kTokenNop") =>
        /\ g.ret.length >= 1
        /\ g.ret.str >= LogicalPos(lx)
        /\ LogicalPos(LexerOf(g)) = g.ret.str + g.ret.length
        /\ LogicalPos(LexerOf(g)) > LogicalPos(lx)
        /\ LogicalPos(LexerOf(g)) <= Len(text)

\* how repeated get_token() calls end, g being the first of them and n the
\* number of calls that may follow it: with the nil token, with a lexical
\* error, or with tokens still coming
RECURSIVE Drain(_, _, _)
Drain(text, g, n) ==
    IF Threw(g) THEN "raised"
    ELSE IF g.ret.type = "kTokenNop" THEN "nil"
    ELSE IF n = 0 THEN "more"
    ELSE Drain(text, get_token(text, LexerOf(g)), n - 1)

\* C30: every token other than nil that get_token() returns has a length
\* of at least 1 and moves the cursor strictly forward; unless a lexical
\* error is raised, repeated get_token() calls return at most as many
\* tokens as the input has characters (from a lexer at work: as it has
\* characters left) and then return nil.
C30_Terminates ==
    /\ Advances(input, Current, get_token(input, Current))
    /\ Drain(input, get_token(input, Current), Len(input) - LogicalPos(Current)) # "more"
    /\ Drain(input, get_token(input, Lexer(0, NoToken, FALSE)), Len(input)) # "more"

\* get_token() has returned the last token of an input of several
\* characters each of which is a token, so that nil comes only after as
\* many calls as the input has characters
C30_Witness ==
    /\ op = "get_token"
    /\ err = <<>>
    /\ ret.type # "kTokenNop"
    /\ ret.length = 1
    /\ cur_ = Len(input)
    /\ Len(input) >= 2
    /\ Drain(input, get_token(input, Lexer(0, NoToken, FALSE)), Len(input) - 1) = "more"
    /\ Drain(input, get_token(input, Lexer(0, NoToken, FALSE)), Len(input)) = "nil"

\* r: what a reading operation did: it raised a lexical error, not the
\* syntax error of an expect-variant
RaisedLexical(r) == Threw(r) /\ Head(r.err) # "at "

\* r: what a reading operation did on the lexer lx: if it raised a lexical
\* error, the cursor and the lookahead flag are as they were, and the
\* get_token() and the peek_token() after it raise the same error and
\* leave the cursor and the flag alone as well
ErrorKeeps(text, lx, r) ==
    RaisedLexical(r) =>
        /\ r.ret = NoToken
        /\ r.cur = lx.cur
        /\ r.peeked = lx.peeked
        /\ LogicalPos(LexerOf(r)) = LogicalPos(lx)
        /\ get_token(text, LexerOf(r)).err = r.err
        /\ get_token(text, LexerOf(r)).cur = lx.cur
        /\ get_token(text, LexerOf(r)).peeked = lx.peeked
        /\ peek_token(text, LexerOf(r)).err = r.err
        /\ peek_token(text, LexerOf(r)).cur = lx.cur
        /\ peek_token(text, LexerOf(r)).peeked = lx.peeked

ErrorKeepsAll(text, lx) ==
    /\ ErrorKeeps(text, lx, get_token(text, lx))
    /\ ErrorKeeps(text, lx, peek_token(text, lx))
    /\ ErrorKeeps(text, lx, get_glob_token(text, lx))
    /\ ErrorKeeps(text, lx, get_word_token(text, lx))
    /\ ErrorKeeps(text, lx, get_rest_of_cmd(text, lx))
    /\ \A tt \in IfTypes : ErrorKeeps(text, lx, get_token_if(text, lx, tt))
    /\ \A tt \in ExpectTypes : ErrorKeeps(text, lx, get_expected_token_tt(text, lx, tt))
    /\ \A raw \in ExpectRaws : ErrorKeeps(text, lx, get_expected_token_raw(text, lx, raw))
    /\ \A tt1 \in ExpectTypes, tt2 \in ExpectTypes :
           ErrorKeeps(text, lx, get_expected_token_tt_tt(text, lx, tt1, tt2))
    /\ \A tt \in ExpectTypes, raw \in ExpectRaws :
           ErrorKeeps(text, lx, get_expected_token_tt_raw(text, lx, tt, raw))
    /\ \A raw1 \in ExpectRaws, raw2 \in ExpectRaws :
           ErrorKeeps(text, lx, get_expected_token_raw_raw(text, lx, raw1, raw2))

\* C31: a lexical error raised while a token is read leaves the cursor and
\* the lookahead flag as they were before the failing call, so that the
\* next get_token() or peek_token() raises the same error again and the
\* offending characters are not skipped; a lexer on which the latest call
\* raised a lexical error raises it again.
C31_ErrorKeeps ==
    /\ ErrorKeepsAll(input, Current)
    /\ (err # <<>> /\ Head(err) # "at ") =>
           /\ ~peeked_
           /\ get_token(input, Current).err = err
           /\ peek_token(input, Current).err = err

\* a token was read, then a call raised the lexical error of the character
\* after it: the cursor is still just past the token read, before the
\* offending character
C31_Witness ==
    /\ err # <<>>
    /\ Head(err) # "at "
    /\ op \in {"get_token", "peek_token"}
    /\ held # NoToken
    /\ cur_ = held.str + held.length
    /\ cur_ > 0
    /\ ~peeked_
    /\ get_token(input, Current).err = err

\* the span of the token t lies inside the text
InInput(text, t) == t.str >= 0 /\ t.length >= 0 /\ t.str + t.length <= Len(text)

\* where the message e has its ", near " piece (0: nowhere)
NearAt(e) ==
    IF \E k \in 1..Len(e) : e[k] = ", near "
    THEN CHOOSE k \in 1..Len(e) : e[k] = ", near " /\ \A j \in 1..(k - 1) : e[j] # ", near "
    ELSE 0

\* the message e of a syntax error raised with the cursor at pos in the
\* text has a left context (at k) exactly when the offset it gives is
\* kContext or more; kContext characters of the text precede pos then, and
\* the context is those characters
ContextInInput(text, pos, e, k) ==
    /\ (k # 0) = (OffsetOf(pos) >= kContext)
    /\ k # 0 =>
           /\ pos - kContext >= 0
           /\ Len(e) >= k + 1 + kContext
           /\ \A i \in 1..kContext : e[k + 1 + i] = text[pos - kContext + i]

\* C32: after any sequence of lexer operations the cursor lies between the
\* start of the input and its end, the token returned and the token
\* pending lie inside the input, and the message of a syntax error has a
\* left context only when at least 10 characters precede the cursor (it
\* has one exactly when its offset, an int, is at least 10), the context
\* being those 10 characters of the input.
C32_Bounds ==
    /\ cur_ >= 0 /\ cur_ <= Len(input)
    /\ InInput(input, ret)
    /\ peeked_ => InInput(input, tok_)
    /\ tok_.str >= 0 /\ tok_.str <= Len(input)
    /\ Mismatched => ContextInInput(input, cur_, err, NearAt(err))

\* an expect-variant has raised its error with the cursor at the end of the
\* input and exactly 10 characters before it, all of them in the message
C32_Witness ==
    /\ Mismatched
    /\ cur_ = kContext
    /\ cur_ = Len(input)
    /\ NearAt(err) # 0
    /\ peeked_
    /\ tok_.str + tok_.length = Len(input)
=============================================================================
